---- MODULE Spec2Model ----
(***************************************************************************)
(* A model of the invoicer's worklog store (src/src/worklog.rs) and of its *)
(* position aggregator (src/src/invoice.rs).                               *)
(*                                                                         *)
(* Conventions of the model:                                               *)
(*  - Option<T> is a sequence of length 0 (None) or 1 (Some(v)).           *)
(*  - A HashSet / HashMap is a sequence without duplicates: its elements   *)
(*    in the (unspecified) order in which the collection iterates them.    *)
(*    Two sets are equal when the ranges of the sequences are equal.       *)
(*  - A date is an integer number of hours; DateTimeMAX and DateTimeMIN    *)
(*    stand for chrono's NaiveDateTime::MAX and ::MIN.                     *)
(*  - An f32 is an exact rational [n, d] with d > 0, or one of the three   *)
(*    non-finite values with d = 0 (NaN, +inf, -inf); rounding is not      *)
(*    modelled, division by zero and NaN propagation are.                  *)
(***************************************************************************)
EXTENDS Integers, Sequences, FiniteSets, TLC

VARIABLES worklog, filtered, recipient, config, invoice, status, call,
          lhs, rhs, merged, tex, arg, ret, run

vars == <<worklog, filtered, recipient, config, invoice, status, call,
          lhs, rhs, merged, tex, arg, ret, run>>

(***************************************************************************)
(* Bounds of the model.                                                    *)
(***************************************************************************)
\* the largest number of records: of a worklog of the store, and of all the
\* worklogs passed to add_worklog on one invoice together
MaxRecords == 3
\* the largest number of add_worklog calls on one invoice
MaxCalls == 2
\* the largest number of chained merges
MaxMerges == 2

(***************************************************************************)
(* Generic helpers.                                                        *)
(***************************************************************************)
None == <<>>

Some(v) == <<v>>

UnwrapOr(opt, d) == IF opt = <<>> THEN d ELSE opt[1]

Range(s) == {s[i] : i \in 1..Len(s)}

SeqsUpTo(S, n) == UNION {[1..k -> S] : k \in 0..n}

Abs(i) == IF i < 0 THEN -i ELSE i

Sign(i) == IF i < 0 THEN -1 ELSE IF i > 0 THEN 1 ELSE 0

RECURSIVE GCD(_, _)
GCD(a, b) == IF b = 0 THEN a ELSE GCD(b, a % b)

(***************************************************************************)
(* f32 arithmetic (exact on finite values, IEEE 754 on the others).        *)
(***************************************************************************)
NaN == [n |-> 0, d |-> 0]

Norm(n, d) ==
    IF d = 0 THEN [n |-> Sign(n), d |-> 0]
    ELSE LET g == GCD(Abs(n), Abs(d))
             s == IF d < 0 THEN -1 ELSE 1
         IN  [n |-> (s * n) \div g, d |-> (s * d) \div g]

F32(i) == [n |-> i, d |-> 1]

IsFinite(x) == x.d # 0

IsNaN(x) == x.d = 0 /\ x.n = 0

FMul(x, y) ==
    IF IsNaN(x) \/ IsNaN(y) THEN NaN
    ELSE Norm(x.n * y.n, x.d * y.d)

FAdd(x, y) ==
    IF IsNaN(x) \/ IsNaN(y) THEN NaN
    ELSE IF ~IsFinite(x) /\ ~IsFinite(y) THEN (IF x.n = y.n THEN x ELSE NaN)
    ELSE IF ~IsFinite(x) THEN x
    ELSE IF ~IsFinite(y) THEN y
    ELSE Norm(x.n * y.d + y.n * x.d, x.d * y.d)

FDiv(x, y) ==
    IF IsNaN(x) \/ IsNaN(y) THEN NaN
    ELSE IF ~IsFinite(x) /\ ~IsFinite(y) THEN NaN
    ELSE IF ~IsFinite(y) THEN F32(0)
    ELSE IF ~IsFinite(x) THEN [n |-> IF y.n < 0 THEN -x.n ELSE x.n, d |-> 0]
    ELSE Norm(x.n * y.d, x.d * y.n)

(***************************************************************************)
(* Dates.                                                                  *)
(***************************************************************************)
DateTimeMAX == 1000

DateTimeMIN == -1000

MinDate(a, b) == IF a <= b THEN a ELSE b

MaxDate(a, b) == IF a >= b THEN a ELSE b

(***************************************************************************)
(* WorklogRecord (worklog.rs).  hours is a whole number of hours, so that  *)
(* the cast (60.0 * 60.0 * hours) as i64 is exact.                         *)
(***************************************************************************)
WorklogRecord(tags, start, hours, rate, message) ==
    [tags |-> tags, start |-> start, hours |-> hours, rate |-> rate,
     message |-> message]

RecordBeginDate(r) == r.start

RecordEndDate(r) == RecordBeginDate(r) + r.hours

RecordTags(r) == Range(r.tags)

\* worklog.rs 44-46: hours * rate.unwrap_or_default()
RecordNet(r) == FMul(F32(r.hours), F32(UnwrapOr(r.rate, 0)))

\* has_tag answering true for every tag
HasTagAlways(r, tag) == TRUE

HasTag(r, tag) == tag \in Range(r.tags)

(***************************************************************************)
(* Worklog (worklog.rs).                                                   *)
(***************************************************************************)
WorklogNew ==
    [begin_date |-> DateTimeMAX, end_date |-> DateTimeMIN, records |-> <<>>,
     rate |-> 100, tags |-> {}]

\* add_record taking the record's begin date instead of the minimum
WorklogAddRecordLastBegin(w, record) ==
    [w EXCEPT !.begin_date = RecordBeginDate(record),
              !.end_date = MaxDate(RecordEndDate(record), w.end_date),
              !.tags = w.tags \cup RecordTags(record),
              !.records = Append(w.records, record)]

WorklogAddRecord(w, record) ==
    [w EXCEPT !.begin_date = MinDate(RecordBeginDate(record), w.begin_date),
              !.end_date = MaxDate(RecordEndDate(record), w.end_date),
              !.tags = w.tags \cup RecordTags(record),
              !.records = Append(w.records, record)]

WorklogSetRate(w, rate) == [w EXCEPT !.rate = rate]

\* worklog.rs 143-149: the nets of the records added up from 0.0
RECURSIVE SumInto(_, _)
SumInto(sum, records) ==
    IF records = <<>> THEN sum
    ELSE SumInto(FAdd(sum, RecordNet(Head(records))), Tail(records))

WorklogSum(w) == SumInto(F32(0), w.records)

RECURSIVE FilterInto(_, _, _)
FilterInto(acc, records, tag) ==
    IF records = <<>> THEN acc
    ELSE FilterInto(IF HasTag(Head(records), tag)
                       THEN WorklogAddRecord(acc, Head(records))
                       ELSE acc,
                    Tail(records), tag)

FromRecordsWithTag(w, tag) == FilterInto(WorklogNew, w.records, tag)

RECURSIVE AppendInto(_, _)
AppendInto(acc, records) ==
    IF records = <<>> THEN acc
    ELSE AppendInto(WorklogAddRecord(acc, Head(records)), Tail(records))

WorklogAppend(w, other) == AppendInto(w, other.records)

WorklogFromRecords(records) == AppendInto(WorklogNew, records)

RECURSIVE InsertByKey(_, _)
InsertByKey(sorted, record) ==
    IF sorted = <<>> THEN <<record>>
    ELSE IF RecordBeginDate(record) < RecordBeginDate(Head(sorted))
         THEN <<record>> \o sorted
         ELSE <<Head(sorted)>> \o InsertByKey(Tail(sorted), record)

RECURSIVE SortByKey(_)
SortByKey(records) ==
    IF records = <<>> THEN <<>>
    ELSE InsertByKey(SortByKey(SubSeq(records, 1, Len(records) - 1)),
                     records[Len(records)])

\* sort leaving the records as they are
WorklogSortSkipped(w) == w

WorklogSort(w) == [w EXCEPT !.records = SortByKey(w.records)]

(***************************************************************************)
(* Recipient and configuration (invoice.rs, invoicer.rs).  recipient.tags  *)
(* is the HashMap<String, RecipientTagInfo> as a sequence of entries in    *)
(* iteration order; config holds the biller's payment.default_rate, the    *)
(* global InvoiceConfig.timesheet_template and whether the locale file of  *)
(* the invoice can be loaded.                                              *)
(***************************************************************************)
TagEntry(name, is_default, position_text) ==
    [name |-> name, is_default |-> is_default, position_text |-> position_text]

TagKeys(rcp) == {rcp.tags[i].name : i \in 1..Len(rcp.tags)}

ContainsKey(rcp, tag) == tag \in TagKeys(rcp)

TagGet(rcp, key) ==
    rcp.tags[CHOOSE i \in 1..Len(rcp.tags) : rcp.tags[i].name = key]

DefaultTagName(rcp) ==
    LET flagged == {i \in 1..Len(rcp.tags) : rcp.tags[i].is_default}
    IN  IF flagged = {} THEN None
        ELSE Some(rcp.tags[CHOOSE i \in flagged : \A j \in flagged : i <= j].name)

TimesheetTemplate(cfg) == UnwrapOr(cfg.timesheet_template, "")

(***************************************************************************)
(* InvoicePosition (invoice.rs).                                           *)
(***************************************************************************)
Panic == [panic |-> TRUE]

FromWorklogRecord(w, default_rate) ==
    [text |-> w.message,
     amount |-> F32(w.hours),
     price_per_item |-> F32(UnwrapOr(w.rate, default_rate)),
     unit |-> "h"]

\* += without its assertion
AddAssignUnchecked(self, other) ==
    LET sum == FAdd(self.amount, other.amount)
    IN  [text |-> self.text,
         amount |-> sum,
         price_per_item |->
             FDiv(FAdd(FMul(self.amount, self.price_per_item),
                       FMul(other.amount, other.price_per_item)), sum),
         unit |-> self.unit]

\* += averaging the two prices without their weights
AddAssignPlainAverage(self, other) ==
    IF ~(self.unit = other.unit /\ self.text = other.text) THEN Panic
    ELSE [text |-> self.text,
          amount |-> FAdd(self.amount, other.amount),
          price_per_item |->
              FDiv(FAdd(self.price_per_item, other.price_per_item), F32(2)),
          unit |-> self.unit]

\* += keeping the later position instead of adding it
AddAssignOverwrite(self, other) ==
    IF ~(self.unit = other.unit /\ self.text = other.text) THEN Panic
    ELSE other

AddAssign(self, other) ==
    IF ~(self.unit = other.unit /\ self.text = other.text) THEN Panic
    ELSE LET sum == FAdd(self.amount, other.amount)
         IN  [text |-> self.text,
              amount |-> sum,
              price_per_item |->
                  FDiv(FAdd(FMul(self.amount, self.price_per_item),
                            FMul(other.amount, other.price_per_item)), sum),
              unit |-> self.unit]

Net(p) == FMul(p.amount, p.price_per_item)

(***************************************************************************)
(* Invoice (invoice.rs).                                                   *)
(***************************************************************************)
\* String's Ord on the strings of the model, ascending: the order in which
\* a BTreeMap<String, _> iterates its keys.
KeyOrder == <<"", "Coding", "dev", "ops">>

KeyRank(k) == CHOOSE i \in 1..Len(KeyOrder) : KeyOrder[i] = k

BTreeNew == [k \in {} |-> Panic]

\* a map iterating its keys in insertion-independent but descending order
BTreeKeysDescending(m) ==
    LET up == SelectSeq(KeyOrder, LAMBDA k : k \in DOMAIN m)
    IN  [i \in 1..Len(up) |-> up[Len(up) + 1 - i]]

BTreeKeys(m) == SelectSeq(KeyOrder, LAMBDA k : k \in DOMAIN m)

BTreeValues(m) == [i \in 1..Len(BTreeKeys(m)) |-> m[BTreeKeys(m)[i]]]

BTreePut(m, key, v) == [k \in DOMAIN m \cup {key} |-> IF k = key THEN v ELSE m[k]]

InvoiceNew ==
    [positions |-> <<>>, timesheet |-> None,
     begin_date |-> DateTimeMAX, end_date |-> DateTimeMIN]

\* default_rate preferring the biller's rate to the recipient's
DefaultRateBillerFirst(rcp, cfg) ==
    UnwrapOr(cfg.payment_default_rate, UnwrapOr(rcp.default_rate, 100))

DefaultRate(rcp, cfg) ==
    UnwrapOr(rcp.default_rate, UnwrapOr(cfg.payment_default_rate, 100))

GenerateTimesheet(cfg, timesheet) ==
    TimesheetTemplate(cfg) # "" \/ timesheet # None

\* the loop over the record's tags stopping at the first tag, matching or not
MatchTagsFirstOnly(acc, tags, rcp) ==
    IF tags = <<>> THEN acc
    ELSE IF ContainsKey(rcp, Head(tags))
    THEN [key |-> Head(tags), text |-> TagGet(rcp, Head(tags)).position_text]
    ELSE acc

\* invoice.rs 316-322: the loop over the record's tags, in iteration order
RECURSIVE MatchTags(_, _, _)
MatchTags(acc, tags, rcp) ==
    IF tags = <<>> THEN acc
    ELSE MatchTags(IF ContainsKey(rcp, Head(tags))
                      THEN [key |-> Head(tags),
                            text |-> TagGet(rcp, Head(tags)).position_text]
                      ELSE acc,
                   Tail(tags), rcp)

\* invoice.rs 324-331: the key and text of a record no tag of which matched
FallbackKey(rcp, record, m) ==
    IF m.key # "" THEN m
    ELSE IF DefaultTagName(rcp) # None
    THEN [key |-> DefaultTagName(rcp)[1],
          text |-> TagGet(rcp, DefaultTagName(rcp)[1]).position_text]
    ELSE [key |-> record.message, text |-> m.text]

WithKey(position, r) ==
    [key |-> r.key, position |-> [position EXCEPT !.text = r.text]]

\* invoice.rs 314-331: the position of one record and its grouping key
ResolvePosition(rcp, record, rate) ==
    WithKey(FromWorklogRecord(record, rate),
            FallbackKey(rcp, record,
                        MatchTags([key |-> "", text |-> record.message],
                                  record.tags, rcp)))

\* invoice.rs 335-340: the record goes to the timesheet, which is created
\* (loading the locale) when there is none yet
TimesheetAdd(acc, record, cfg) ==
    IF ~GenerateTimesheet(cfg, acc.timesheet) THEN acc
    ELSE IF acc.timesheet = None /\ ~cfg.locale_exists
    THEN [acc EXCEPT !.panicked = TRUE]
    ELSE [acc EXCEPT !.timesheet =
            Some(WorklogAddRecord(UnwrapOr(acc.timesheet, WorklogNew), record))]

\* invoice.rs 333: positions.entry(key).and_modify(|k| *k += position).or_insert(position)
EntryMerge(acc, record, key, entry, cfg) ==
    IF entry = Panic THEN [acc EXCEPT !.panicked = TRUE]
    ELSE TimesheetAdd([acc EXCEPT !.map = BTreePut(acc.map, key, entry)], record, cfg)

\* invoice.rs 309-340: the body of the loop, for one record
AggregateRecord(acc, record, rp, cfg) ==
    EntryMerge([acc EXCEPT
                  !.begin_date = MinDate(RecordBeginDate(record), acc.begin_date),
                  !.end_date = MaxDate(RecordEndDate(record), acc.end_date),
                  !.resolved = Append(acc.resolved, rp)],
               record, rp.key,
               IF rp.key \in DOMAIN acc.map
                  THEN AddAssign(acc.map[rp.key], rp.position)
                  ELSE rp.position,
               cfg)

\* invoice.rs 308-341: the loop over the records of the worklog
RECURSIVE AggregateRecords(_, _, _, _, _)
AggregateRecords(acc, records, rcp, cfg, rate) ==
    IF records = <<>> \/ acc.panicked THEN acc
    ELSE AggregateRecords(
           AggregateRecord(acc, Head(records),
                           ResolvePosition(rcp, Head(records), rate), cfg),
           Tail(records), rcp, cfg, rate)

CallResult(inv, panicked, looped) ==
    [invoice |-> inv, panicked |-> panicked, resolved |-> looped.resolved,
     keys |-> IF looped.panicked THEN <<>> ELSE BTreeKeys(looped.map)]

\* the positions of the call replacing those the invoice held
PushPositionsReplacing(inv, looped, cfg) ==
    IF looped.panicked THEN CallResult(inv, TRUE, looped)
    ELSE IF ~GenerateTimesheet(cfg, looped.timesheet)
    THEN CallResult([inv EXCEPT !.positions = BTreeValues(looped.map)],
                    FALSE, looped)
    ELSE IF looped.timesheet = None
    THEN CallResult([inv EXCEPT !.positions = BTreeValues(looped.map)],
                    TRUE, looped)
    ELSE CallResult([inv EXCEPT !.positions = BTreeValues(looped.map),
                                !.timesheet = Some(WorklogSort(looped.timesheet[1]))],
                    FALSE, looped)

\* invoice.rs 343-350: the positions are pushed in the order of their keys
\* and the timesheet is sorted
PushPositions(inv, looped, cfg) ==
    IF looped.panicked THEN CallResult(inv, TRUE, looped)
    ELSE IF ~GenerateTimesheet(cfg, looped.timesheet)
    THEN CallResult([inv EXCEPT !.positions = @ \o BTreeValues(looped.map)],
                    FALSE, looped)
    ELSE IF looped.timesheet = None
    THEN CallResult([inv EXCEPT !.positions = @ \o BTreeValues(looped.map)],
                    TRUE, looped)
    ELSE CallResult([inv EXCEPT !.positions = @ \o BTreeValues(looped.map),
                                !.timesheet = Some(WorklogSort(looped.timesheet[1]))],
                    FALSE, looped)

\* invoice.rs 370-376: the nets of the positions added up from 0.0
RECURSIVE NetInto(_, _)
NetInto(sum, positions) ==
    IF positions = <<>> THEN sum
    ELSE NetInto(FAdd(sum, Net(Head(positions))), Tail(positions))

InvoiceSum(inv) == NetInto(F32(0), inv.positions)

LoopResult(inv, looped, cfg) ==
    PushPositions([inv EXCEPT !.begin_date = looped.begin_date,
                              !.end_date = looped.end_date,
                              !.timesheet = looped.timesheet],
                  looped, cfg)

\* invoice.rs 305-351: add_worklog.  The result holds the invoice as the
\* call leaves it, whether the call panicked, for every record the key and
\* the position the loop resolved for it, and the keys of the positions
\* pushed.
AddWorklog(inv, w, rcp, cfg) ==
    LoopResult(inv,
               AggregateRecords(
                 [map |-> BTreeNew, begin_date |-> inv.begin_date,
                  end_date |-> inv.end_date, timesheet |-> inv.timesheet,
                  panicked |-> FALSE, resolved |-> <<>>],
                 w.records, rcp, cfg, w.rate),
               cfg)

(***************************************************************************)
(* Strings that are scanned (template lines, tag values, format patterns)  *)
(* are sequences of pieces: a piece is one of the substrings the code      *)
(* looks for, a blank, or a run of other characters.                       *)
(***************************************************************************)
StartsWith(s, piece) == s # <<>> /\ s[1] = piece

\* str::replace(piece, "")
Remove(s, piece) == SelectSeq(s, LAMBDA p : p # piece)

\* str::replacen(piece, "", 1)
RemoveFirst(s, piece) ==
    LET hits == {i \in 1..Len(s) : s[i] = piece}
    IN  IF hits = {} THEN s
        ELSE LET i == CHOOSE h \in hits : \A g \in hits : h <= g
             IN  SubSeq(s, 1, i - 1) \o SubSeq(s, i + 1, Len(s))

RECURSIVE TrimStart(_)
TrimStart(s) == IF StartsWith(s, " ") THEN TrimStart(Tail(s)) ELSE s

RECURSIVE TrimEnd(_)
TrimEnd(s) ==
    IF s # <<>> /\ s[Len(s)] = " " THEN TrimEnd(SubSeq(s, 1, Len(s) - 1)) ELSE s

\* str::trim
Trim(s) == TrimEnd(TrimStart(s))

(***************************************************************************)
(* TexTemplate (generate_tex.rs).  Files are text files: every line reads  *)
(* as a string.  The writer is in memory and does not fail; a token's      *)
(* handler may return an error.  An entry of the output is a line of text  *)
(* together with what wrote it ("line": generate itself, "token": a        *)
(* handler, "input": inline_input) and the template line generate was at.  *)
(***************************************************************************)
InputPiece == "\\input{"

MarkerPiece == "%$"

\* generate_tex.rs 74
IsInput(line) == StartsWith(line, InputPiece)

\* generate_tex.rs 75
InputFilename(line) == Remove(Remove(line, InputPiece), "}")

\* helpers::read_lines of templates/<filename>.tex
ReadLines(files, filename) ==
    IF filename \in DOMAIN files THEN Some(files[filename]) ELSE None

\* inline_input failing when the file cannot be opened
InlineInputFatal(files, filename) ==
    LET lines == ReadLines(files, filename)
    IN  [ok |-> lines # None, lines |-> UnwrapOr(lines, <<>>)]

\* inline_input scanning the included file for includes of its own
InlineInputNested(files, filename) ==
    LET lines == UnwrapOr(ReadLines(files, filename), <<>>)
        Expand(l) == IF IsInput(l)
                     THEN UnwrapOr(ReadLines(files, InputFilename(l)), <<>>)
                     ELSE <<l>>
        RECURSIVE Cat(_)
        Cat(k) == IF k = 0 THEN <<>> ELSE Cat(k - 1) \o Expand(lines[k])
    IN  [ok |-> TRUE, lines |-> Cat(Len(lines))]

\* generate_tex.rs 93-106: the lines inline_input writes and whether it
\* returns Ok
InlineInput(files, filename) ==
    LET lines == ReadLines(files, filename)
    IN  [ok |-> TRUE, lines |-> UnwrapOr(lines, <<>>)]

TokenNameFromLine(line) ==
    LET l == Trim(line)
    IN  IF StartsWith(l, MarkerPiece) THEN Some(Trim(Remove(l, MarkerPiece)))
        ELSE None

Written(lines, by, at) ==
    [k \in 1..Len(lines) |-> [text |-> lines[k], by |-> by, at |-> at]]

\* tokens.get(name) of generate_tex.rs 82
Handler(tokens, line) ==
    LET name == TokenNameFromLine(line)
    IN  IF name # None /\ name[1] \in DOMAIN tokens THEN Some(tokens[name[1]])
        ELSE None

\* the handler called before the line is written
WriteLineHandlerFirst(tokens, line, at) ==
    LET handler == Handler(tokens, line)
    IN  [ok |-> handler = None \/ handler[1].ok,
         out |-> (IF handler = None THEN <<>>
                  ELSE Written(handler[1].lines, "token", at))
                 \o Written(<<line>>, "line", at)]

\* the line written without its leading and trailing blanks
WriteLineTrimmed(tokens, line, at) ==
    LET handler == Handler(tokens, line)
    IN  [ok |-> handler = None \/ handler[1].ok,
         out |-> Written(<<Trim(line)>>, "line", at)
                 \o (IF handler = None THEN <<>>
                     ELSE Written(handler[1].lines, "token", at))]

\* generate_tex.rs 79-85: what is written for a line that is not an include
\* and whether the handler, if one is called, returns Ok
WriteLine(tokens, line, at) ==
    LET handler == Handler(tokens, line)
    IN  [ok |-> handler = None \/ handler[1].ok,
         out |-> Written(<<line>>, "line", at)
                 \o (IF handler = None THEN <<>>
                     ELSE Written(handler[1].lines, "token", at))]

(***************************************************************************)
(* InvoiceConfig and the settings an Invoice uses (invoice.rs).  A format  *)
(* string is a sequence of pieces; the other settings are plain values.    *)
(***************************************************************************)
SettingNames ==
    {"locale_str", "template", "date_format", "number_format",
     "filename_format", "days_for_payment", "calculate_value_added_tax",
     "timesheet_template"}

\* invoice.rs 183-190: the literals of default_getter!
SettingDefault ==
    [locale_str |-> "en",
     template |-> "invoice.tex",
     date_format |-> <<"%Y", "/", "%m", "/", "%d">>,
     number_format |-> <<"%Y", "%m", "${COUNTER}">>,
     filename_format |-> <<"${INVOICENUMBER}", "_", "${INVOICE}", "_",
                           "${RECIPIENT}", ".tex">>,
     days_for_payment |-> 14,
     calculate_value_added_tax |-> TRUE,
     timesheet_template |-> ""]

\* an InvoiceConfig without any setting
InvoiceConfigNone == [f \in SettingNames |-> None]

\* invoice.rs 173-191: the getter of a setting
ConfigGetter(cfg, name) == UnwrapOr(cfg[name], SettingDefault[name])

\* invoice.rs 255-266: Invoice::new keeps the recipient and a clone of the
\* biller's InvoiceConfig
InvoiceOf(recipient_config, global_config) ==
    [config |-> global_config, recipient |-> [invoice |-> recipient_config]]

\* invoice.rs 269-275: the locale name Invoice::locale loads
LocaleStr(inv) ==
    IF inv.recipient.invoice.locale_str # None
    THEN inv.recipient.invoice.locale_str[1]
    ELSE IF inv.config.locale_str # None THEN inv.config.locale_str[1]
    ELSE "en"

\* the value of a setting as the Invoice uses it: invoice.rs 269-275 for
\* the locale, and self.config's getter for the others (302 and 337, 355,
\* 403, 407, 425, 432, 493)
InvoiceSetting(inv, name) ==
    IF name = "locale_str" THEN LocaleStr(inv)
    ELSE ConfigGetter(inv.config, name)

(***************************************************************************)
(* Invoice::number (invoice.rs 353-359).                                   *)
(***************************************************************************)
DigitChars == <<"0", "1", "2", "3", "4", "5", "6", "7", "8", "9">>

\* the decimal digits of a natural number
RECURSIVE Digits(_)
Digits(n) ==
    IF n < 10 THEN <<DigitChars[n + 1]>>
    ELSE Digits(n \div 10) \o <<DigitChars[(n % 10) + 1]>>

\* a number formatted without padding
ZeroPadNone(n, width) == Digits(n)

\* format!("{:0width$}", n) of a natural number
ZeroPad(n, width) ==
    LET d == Digits(n)
    IN  [i \in 1..(IF width > Len(d) THEN width - Len(d) ELSE 0) |-> "0"] \o d

\* str::replace(piece, with)
Replace(s, piece, with) ==
    LET RECURSIVE Cat(_)
        Cat(k) == IF k = 0 THEN <<>>
                  ELSE Cat(k - 1) \o (IF s[k] = piece THEN with ELSE <<s[k]>>)
    IN  Cat(Len(s))

Number(number_format, year, month, counter) ==
    Replace(Replace(Replace(number_format, "%Y", ZeroPad(year, 4)),
                    "%m", ZeroPad(month, 2)),
            "${COUNTER}", ZeroPad(counter, 2))

(***************************************************************************)
(* RecipientTagInfo::from (invoice.rs 73-91).                              *)
(***************************************************************************)
RecipientTagInfoFrom(value) ==
    LET v == Trim(value)
    IN  [is_default |-> StartsWith(v, "[default]"),
         position_text |-> RemoveFirst(v, "[default]")]

(***************************************************************************)
(* The state of the model.                                                 *)
(*   worklog    a Worklog under construction                               *)
(*   filtered   the last from_records_with_tag call: its tag, the worklog  *)
(*              it was called on and the worklog it returned               *)
(*   recipient, config   the Recipient of the invoice and the biller's     *)
(*              configuration                                              *)
(*   invoice    the Invoice                                                *)
(*   status     "running", or "panicked" once an assertion or an unwrap    *)
(*              has aborted the process                                    *)
(*   call       the add_worklog calls made so far: their number, the       *)
(*              number of records passed in them, the                      *)
(*              worklog of the last one and the invoice it was made on,    *)
(*              whether the call before it was made with that worklog too, *)
(*              the key and position resolved for each of its records,     *)
(*              the keys of the positions each call appended, and whether  *)
(*              the last call was made by Invoicer::generate               *)
(*   lhs, rhs, merged   the operands and the result of InvoicePosition +=  *)
(*   tex        a TexTemplate and its run of generate: the template file,  *)
(*              the registered tokens, the files an include can open, the  *)
(*              template line generate is at, the output written so far    *)
(*              and generate's result                                      *)
(*   arg, ret   the argument and the return value of a function that is    *)
(*              applied on its own (Option: None before the call)          *)
(*   run        Invoicer::generate: the recipients (each with what the     *)
(*              file system holds for it), the store and the configuration *)
(*              generate was entered with, the recipient its loop is at, the *)
(*              counter, the fingerprints (a BiMap: pairs of a left and a  *)
(*              right value in insertion order), how the iteration of each *)
(*              recipient the loop has reached ended, and the result       *)
(*              ("running", "ok", "err", or "panicked")                    *)
(***************************************************************************)
NoFiltered == [tag |-> None, source |-> WorklogNew, result |-> WorklogNew]

NoRecipient == [name |-> "acme", default_rate |-> None, tags |-> <<>>]

NoConfig ==
    [payment_default_rate |-> None, timesheet_template |-> None,
     locale_exists |-> TRUE]

NoCall ==
    [n |-> 0, records |-> 0, worklog |-> WorklogNew, again |-> FALSE,
     before |-> InvoiceNew, resolved |-> <<>>, keys |-> <<>>, via |-> "none"]

NoPosition == [text |-> "", amount |-> F32(0), price_per_item |-> F32(0), unit |-> ""]

NoMerge == [n |-> 0, self |-> NoPosition, other |-> NoPosition]

InvoiceIdle ==
    /\ recipient = NoRecipient
    /\ config = NoConfig
    /\ invoice = InvoiceNew
    /\ call = NoCall

MergeIdle ==
    /\ lhs = NoPosition
    /\ rhs = NoPosition
    /\ merged = NoMerge

WorklogIdle ==
    /\ worklog = WorklogNew
    /\ filtered = NoFiltered

NoTex ==
    [template |-> None, tokens |-> <<>>, files |-> <<>>, line |-> 1,
     out |-> <<>>, result |-> "idle"]

TexIdle == tex = NoTex

ApplyIdle ==
    /\ arg = None
    /\ ret = None

NoRun ==
    [recipients |-> <<>>, entry |-> [worklog |-> WorklogNew, config |-> NoConfig],
     next |-> 1, counter |-> 1, fingerprints |-> <<>>, done |-> <<>>,
     result |-> "idle"]

RunIdle == run = NoRun

(***************************************************************************)
(* The worklog store: Worklog::new, add_record, from_records_with_tag.     *)
(***************************************************************************)
StoreTagSets == {<<>>, <<"dev">>, <<"dev", "ops">>}

StoreRecords ==
    {WorklogRecord(t, s, h, None, "Coding") :
        t \in StoreTagSets, s \in {1, 4}, h \in {-2, 0, 2}}

StoreTags == {"dev", "ops"}

InitWorklog ==
    /\ WorklogIdle
    /\ InvoiceIdle
    /\ MergeIdle
    /\ TexIdle
    /\ ApplyIdle
    /\ RunIdle
    /\ status = "running"

\* the store is filtered once its records are in, as Invoicer::generate does
AddRecord(record) ==
    /\ Len(worklog.records) < MaxRecords
    /\ filtered.tag = None
    /\ worklog' = WorklogAddRecord(worklog, record)
    /\ UNCHANGED <<filtered, recipient, config, invoice, status, call,
                   lhs, rhs, merged, tex, arg, ret, run>>

FilterByTag(tag) ==
    /\ filtered' = [tag |-> Some(tag), source |-> worklog,
                    result |-> FromRecordsWithTag(worklog, tag)]
    /\ UNCHANGED <<worklog, recipient, config, invoice, status, call,
                   lhs, rhs, merged, tex, arg, ret, run>>

NextWorklog ==
    \/ \E record \in StoreRecords : AddRecord(record)
    \/ \E tag \in StoreTags : FilterByTag(tag)

SpecWorklog == InitWorklog /\ [][NextWorklog]_vars

SetMin(S) == CHOOSE x \in S : \A y \in S : x <= y

SetMax(S) == CHOOSE x \in S : \A y \in S : x >= y

Permuted(s, p) == [i \in 1..Len(s) |-> s[p[i]]]

\* C8: once add_record has been called, begin_date is the minimum of the
\* begin dates of the added records and end_date the maximum of their end
\* dates, and adding the same records in any other order gives the same two
\* dates.
C8_DateRange ==
    worklog.records # <<>> =>
        /\ worklog.begin_date = SetMin({RecordBeginDate(r) : r \in Range(worklog.records)})
        /\ worklog.end_date = SetMax({RecordEndDate(r) : r \in Range(worklog.records)})
        /\ \A p \in Permutations(1..Len(worklog.records)) :
             LET other == WorklogFromRecords(Permuted(worklog.records, p))
             IN  other.begin_date = worklog.begin_date /\ other.end_date = worklog.end_date

C8_Witness ==
    /\ Len(worklog.records) = 3
    /\ RecordBeginDate(worklog.records[1]) > RecordBeginDate(worklog.records[2])
    /\ RecordEndDate(worklog.records[2]) > RecordEndDate(worklog.records[3])
    /\ RecordEndDate(worklog.records[1]) < RecordEndDate(worklog.records[2])

\* C9: a new worklog has begin_date = DateTime::MAX and end_date =
\* DateTime::MIN, and after one or more add_record calls, whatever the hours
\* of the records, begin_date <= end_date.
C9_BeginBeforeEnd ==
    /\ worklog.records = <<>> =>
         worklog.begin_date = DateTimeMAX /\ worklog.end_date = DateTimeMIN
    /\ worklog.records # <<>> => worklog.begin_date <= worklog.end_date

Matching(records, tag) == SelectSeq(records, LAMBDA r : tag \in RecordTags(r))

\* C10 (state part): the worklog from_records_with_tag(tag) returns holds
\* exactly the source records that have the tag, in source order; its dates
\* are the minimum begin and maximum end of those records (the sentinels when
\* there is none); its tag set is the union of their tags, a subset of the
\* source's.
C10_Filtered ==
    filtered.tag # None =>
        LET kept == Matching(filtered.source.records, filtered.tag[1])
            res == filtered.result
        IN  /\ res.records = kept
            /\ res.begin_date =
                 IF kept = <<>> THEN DateTimeMAX
                 ELSE SetMin({RecordBeginDate(r) : r \in Range(kept)})
            /\ res.end_date =
                 IF kept = <<>> THEN DateTimeMIN
                 ELSE SetMax({RecordEndDate(r) : r \in Range(kept)})
            /\ res.tags = UNION {RecordTags(r) : r \in Range(kept)}
            /\ res.tags \subseteq filtered.source.tags

\* C10: the returned worklog is as C10_Filtered says, and the call leaves
\* the source worklog as it was.
C10_FromRecordsWithTag ==
    /\ []C10_Filtered
    /\ [][filtered' # filtered => worklog' = worklog /\ filtered'.source = worklog]_vars

C10_Witness ==
    /\ filtered.tag = Some("ops")
    /\ Len(filtered.source.records) = 3
    /\ Len(filtered.result.records) = 1
    /\ filtered.result.tags = {"dev", "ops"}
    /\ filtered.result.begin_date > filtered.source.begin_date

(***************************************************************************)
(* InvoicePosition's += on its own: lhs += rhs, repeated with a fresh rhs  *)
(* as long as the assertion holds.                                         *)
(***************************************************************************)
MergePositions ==
    {[text |-> t, amount |-> F32(a), price_per_item |-> F32(p), unit |-> u] :
        t \in {"Development", "Coding"}, a \in {-2, 0, 2}, p \in {50, 100},
        u \in {"h", "d"}}

InitMerge ==
    /\ WorklogIdle
    /\ InvoiceIdle
    /\ TexIdle
    /\ ApplyIdle
    /\ RunIdle
    /\ lhs \in MergePositions
    /\ rhs \in MergePositions
    /\ merged = NoMerge
    /\ status = "running"

MergeInto ==
    /\ status = "running"
    /\ merged.n < MaxMerges
    /\ AddAssign(lhs, rhs) # Panic
    /\ lhs' = AddAssign(lhs, rhs)
    /\ rhs' \in MergePositions
    /\ merged' = [n |-> merged.n + 1, self |-> lhs, other |-> rhs]
    /\ UNCHANGED <<worklog, filtered, recipient, config, invoice, status, call,
                   tex, arg, ret, run>>

MergeAborts ==
    /\ status = "running"
    /\ merged.n < MaxMerges
    /\ AddAssign(lhs, rhs) = Panic
    /\ status' = "panicked"
    /\ merged' = [n |-> merged.n + 1, self |-> lhs, other |-> rhs]
    /\ UNCHANGED <<worklog, filtered, recipient, config, invoice, call, lhs, rhs,
                   tex, arg, ret, run>>

NextMerge == MergeInto \/ MergeAborts

SpecMerge == InitMerge /\ [][NextMerge]_vars

Mergeable(a, b) == a.unit = b.unit /\ a.text = b.text

\* C3: merging b into a, both of one text and one unit, gives a position of
\* that text and unit whose amount is a.amount + b.amount and whose price
\* times that amount is a.amount * a.price + b.amount * b.price (the
\* quantity-weighted average); where that quotient does not exist (the
\* amounts add up to zero, or an operand is not finite) the price is not a
\* finite number.
C3_WeightedAverage ==
    (merged.n > 0 /\ Mergeable(merged.self, merged.other)) =>
        LET a == merged.self
            b == merged.other
            sum == FAdd(a.amount, b.amount)
            total == FAdd(FMul(a.amount, a.price_per_item),
                          FMul(b.amount, b.price_per_item))
        IN  /\ status = "running"
            /\ lhs.text = a.text
            /\ lhs.unit = a.unit
            /\ lhs.amount = sum
            /\ IF IsFinite(total) /\ sum # F32(0)
               THEN /\ IsFinite(lhs.price_per_item)
                    /\ FMul(lhs.price_per_item, sum) = total
               ELSE ~IsFinite(lhs.price_per_item)

C3_Witness ==
    /\ merged.n = 2
    /\ Mergeable(merged.self, merged.other)
    /\ merged.self.amount = F32(4)
    /\ merged.self.price_per_item = F32(75)
    /\ merged.other.price_per_item = F32(50)
    /\ lhs.amount = F32(6)
    /\ lhs.price_per_item = [n |-> 200, d |-> 3]

\* C4: merging two positions whose text or unit differs aborts the process:
\* the left operand is not replaced by a merged position and nothing runs
\* after the attempt.
C4_MismatchIsFatal ==
    (merged.n > 0 /\ ~Mergeable(merged.self, merged.other)) =>
        /\ status = "panicked"
        /\ lhs = merged.self
        /\ ~ENABLED NextMerge

C4_Witness ==
    /\ merged.n = 2
    /\ merged.self.text = merged.other.text
    /\ merged.self.unit # merged.other.unit
    /\ status = "panicked"

(***************************************************************************)
(* The position aggregator: Invoice::add_worklog, called directly on a     *)
(* worklog as Worklog::new and add_record build it, or by the body of      *)
(* Invoicer::generate's loop (invoicer.rs 307-314).                        *)
(***************************************************************************)
Record(r, w, via) ==
    /\ invoice' = r.invoice
    /\ status' = IF r.panicked THEN "panicked" ELSE "running"
    /\ call' = [n |-> call.n + 1, records |-> call.records + Len(w.records),
                worklog |-> w, again |-> call.n > 0 /\ w = call.worklog,
                before |-> invoice,
                resolved |-> r.resolved, keys |-> Append(call.keys, r.keys),
                via |-> via]
    /\ UNCHANGED <<worklog, filtered, recipient, config, lhs, rhs, merged,
                   tex, arg, ret, run>>

AddWorklogCall(w, via) == Record(AddWorklog(invoice, w, recipient, config), w, via)

AddWorklogTo(Records) ==
    /\ status = "running"
    /\ call.n < MaxCalls
    /\ \E records \in SeqsUpTo(Records, MaxRecords - call.records) :
         AddWorklogCall(WorklogFromRecords(records), "add_worklog")

GenerateFor(Records) ==
    /\ status = "running"
    /\ call.n = 0
    /\ \E records \in SeqsUpTo(Records, MaxRecords - call.records) :
         AddWorklogCall(
           WorklogSetRate(
             FromRecordsWithTag(WorklogFromRecords(records), recipient.name),
             DefaultRate(recipient, config)),
           "generate")

(***************************************************************************)
(* Spec: grouping keys.  The records differ in their tags (and the order   *)
(* in which their tag set iterates) and in their message.                  *)
(***************************************************************************)
\* an empty Tags field deserializes to the set of the empty string
KeyTagSets == {<<"">>, <<"dev">>, <<"dev", "ops">>, <<"ops", "dev">>}

KeyRecords ==
    {WorklogRecord(t, 1, 1, None, m) : t \in KeyTagSets, m \in {"Coding", "dev"}}

KeyTagMaps ==
    { <<>>,
      <<TagEntry("dev", FALSE, "Development")>>,
      <<TagEntry("dev", FALSE, "Development"), TagEntry("ops", FALSE, "Operations")>>,
      <<TagEntry("dev", FALSE, "Development"), TagEntry("ops", TRUE, "Operations")>>,
      <<TagEntry("", FALSE, "Miscellaneous"), TagEntry("dev", FALSE, "Development")>> }

Init ==
    /\ WorklogIdle
    /\ MergeIdle
    /\ TexIdle
    /\ ApplyIdle
    /\ RunIdle
    /\ recipient \in {[name |-> "acme", default_rate |-> None, tags |-> t] :
                         t \in KeyTagMaps}
    /\ config = NoConfig
    /\ invoice = InvoiceNew
    /\ call = NoCall
    /\ status = "running"

Next == AddWorklogTo(KeyRecords)

Spec == Init /\ [][Next]_vars

(***************************************************************************)
(* SpecRates: amounts and prices.  The records differ in their hours and   *)
(* rate, the recipient and the biller in their default rates.              *)
(***************************************************************************)
RateRecords ==
    {WorklogRecord(<<"acme", "dev">>, 1, h, r, "Coding") :
        h \in {2, 3}, r \in {None, Some(50)}}
    \cup {WorklogRecord(<<"acme">>, 1, 2, None, "Coding"),
          WorklogRecord(<<"dev">>, 1, 3, Some(50), "Coding")}

RateTagMaps == { <<>>, <<TagEntry("dev", FALSE, "Development")>> }

InitRates ==
    /\ WorklogIdle
    /\ MergeIdle
    /\ TexIdle
    /\ ApplyIdle
    /\ RunIdle
    /\ recipient \in {[name |-> "acme", default_rate |-> d, tags |-> t] :
                         d \in {None, Some(80)}, t \in RateTagMaps}
    /\ config \in {[payment_default_rate |-> d, timesheet_template |-> None,
                    locale_exists |-> TRUE] : d \in {None, Some(90)}}
    /\ invoice = InvoiceNew
    /\ call = NoCall
    /\ status = "running"

NextRates == AddWorklogTo(RateRecords) \/ GenerateFor(RateRecords)

SpecRates == InitRates /\ [][NextRates]_vars

(***************************************************************************)
(* The records of the last add_worklog call and what the loop resolved for *)
(* them.                                                                   *)
(***************************************************************************)
Called == call.n > 0

Returned == Called /\ status = "running"

LastRecords == call.worklog.records

Resolved == 1..Len(call.resolved)

KeyOf(i) == call.resolved[i].key

TextOf(i) == call.resolved[i].position.text

PriceOf(i) == call.resolved[i].position.price_per_item

Matches(record) == RecordTags(record) \cap TagKeys(recipient)

DefaultTags == {recipient.tags[i].name :
                  i \in {j \in 1..Len(recipient.tags) : recipient.tags[j].is_default}}

\* C1: for every record of an add_worklog call: if one of its tags is a key
\* of the recipient's tag map, its grouping key is such a tag and its text
\* that tag's position_text; otherwise, if the recipient has a default tag,
\* its key is that tag's name and its text that tag's position_text;
\* otherwise its key and its text are its message.
C1_KeyPrecedence ==
    \A i \in Resolved :
        LET record == LastRecords[i]
        IN  IF Matches(record) # {}
            THEN /\ KeyOf(i) \in Matches(record)
                 /\ TextOf(i) = TagGet(recipient, KeyOf(i)).position_text
            ELSE IF DefaultTags # {}
            THEN /\ KeyOf(i) \in DefaultTags
                 /\ TextOf(i) = TagGet(recipient, KeyOf(i)).position_text
            ELSE /\ KeyOf(i) = record.message
                 /\ TextOf(i) = record.message

\* C1 holds for the records none of whose matching tags is the empty string.
C1_KeyPrecedenceNonEmptyTags ==
    \A i \in Resolved :
        LET record == LastRecords[i]
        IN  "" \notin Matches(record) =>
            IF Matches(record) # {}
            THEN /\ KeyOf(i) \in Matches(record)
                 /\ TextOf(i) = TagGet(recipient, KeyOf(i)).position_text
            ELSE IF DefaultTags # {}
            THEN /\ KeyOf(i) \in DefaultTags
                 /\ TextOf(i) = TagGet(recipient, KeyOf(i)).position_text
            ELSE /\ KeyOf(i) = record.message
                 /\ TextOf(i) = record.message

RECURSIVE SumHours(_)
SumHours(S) ==
    IF S = {} THEN 0
    ELSE LET i == CHOOSE j \in S : TRUE
         IN  LastRecords[i].hours + SumHours(S \ {i})

\* C2: after one add_worklog call on an empty invoice, the invoice holds
\* one position for each grouping key of the worklog's records and none
\* else, and the amount of the position of a key is the sum of the hours of
\* the records of that key; two records tagged with one mapped tag, of 2 and
\* 3 hours, without rates and at the default rate 100, give the single
\* position (the tag's position_text, 5, 100) of net 500.
C2_OnePositionPerKey ==
    (Returned /\ call.n = 1) =>
        LET keys == call.keys[1]
        IN  /\ Len(invoice.positions) = Cardinality({KeyOf(i) : i \in Resolved})
            /\ Len(keys) = Len(invoice.positions)
            /\ {keys[k] : k \in 1..Len(keys)} = {KeyOf(i) : i \in Resolved}
            /\ \A k \in 1..Len(keys) :
                 invoice.positions[k].amount =
                     F32(SumHours({i \in Resolved : KeyOf(i) = keys[k]}))
            /\ ( /\ Len(LastRecords) = 2
                 /\ \A i \in 1..2 : /\ "dev" \in RecordTags(LastRecords[i])
                                    /\ LastRecords[i].rate = None
                 /\ {LastRecords[i].hours : i \in 1..2} = {2, 3}
                 /\ call.worklog.rate = 100
                 /\ ContainsKey(recipient, "dev") )
               => /\ invoice.positions =
                       <<[text |-> TagGet(recipient, "dev").position_text,
                          amount |-> F32(5), price_per_item |-> F32(100),
                          unit |-> "h"]>>
                  /\ Net(invoice.positions[1]) = F32(500)

C2_Witness ==
    /\ Returned
    /\ call.n = 1
    /\ Len(LastRecords) = 2
    /\ LastRecords[1].hours = 2
    /\ LastRecords[2].hours = 3
    /\ \A i \in 1..2 : LastRecords[i].rate = None /\ "dev" \in RecordTags(LastRecords[i])
    /\ ContainsKey(recipient, "dev")
    /\ call.worklog.rate = 100
    /\ Len(invoice.positions) = 1

Flatten(ss) ==
    LET RECURSIVE Cat(_)
        Cat(k) == IF k = 0 THEN <<>> ELSE Cat(k - 1) \o ss[k]
    IN  Cat(Len(ss))

Ascending(keys) ==
    \A a, b \in 1..Len(keys) : a < b => KeyRank(keys[a]) < KeyRank(keys[b])

NonDescending(keys) ==
    \A a, b \in 1..Len(keys) : a < b => KeyRank(keys[a]) <= KeyRank(keys[b])

SameForEveryPermutation ==
    \A p \in Permutations(1..Len(LastRecords)) :
        LET r == AddWorklog(call.before,
                            [call.worklog EXCEPT !.records = Permuted(LastRecords, p)],
                            recipient, config)
        IN  ~r.panicked /\ r.invoice.positions = invoice.positions

\* C5: after any sequence of add_worklog calls the position list as a whole
\* is in lexicographic order of grouping key and does not depend on the
\* order of the records.
C5_SortedByKey ==
    Returned => NonDescending(Flatten(call.keys)) /\ SameForEveryPermutation

\* C5 as amended: the positions each single add_worklog call appends are in
\* strictly ascending lexicographic order of grouping key, they follow the
\* positions of the earlier calls, which stay as they were, and they are the
\* same for every permutation of the records of that call.
C5_SortedWithinCall ==
    Returned =>
        /\ \A c \in 1..Len(call.keys) : Ascending(call.keys[c])
        /\ Len(invoice.positions) = Len(Flatten(call.keys))
        /\ SubSeq(invoice.positions, 1, Len(call.before.positions)) = call.before.positions
        /\ SameForEveryPermutation

C5_Witness ==
    /\ Returned
    /\ call.n = 2
    /\ call.keys = << <<"dev", "ops">>, <<"Coding">> >>
    /\ KeyOf(1) = "Coding"

\* C6: two records of an add_worklog call whose tag sets have the same set
\* of matches in the recipient's tag map have the same grouping key.
C6_SameMatchesSameKey ==
    \A i, j \in Resolved :
        Matches(LastRecords[i]) = Matches(LastRecords[j]) => KeyOf(i) = KeyOf(j)

\* C6 as amended: two records whose tag sets have the same single match, a
\* tag other than the empty string, both have that tag as their key, and two
\* records without a match other than the empty string both have the default
\* tag's name as their key when the recipient has a default tag.
C6_SameSingleMatchSameKey ==
    \A i, j \in Resolved :
        LET mi == Matches(LastRecords[i])
            mj == Matches(LastRecords[j])
        IN  /\ (mi = mj /\ Cardinality(mi) = 1 /\ mi # {""})
                 => (KeyOf(i) = KeyOf(j) /\ mi = {KeyOf(i)})
            /\ (mi \subseteq {""} /\ mj \subseteq {""} /\ DefaultTags # {})
                 => (KeyOf(i) = KeyOf(j) /\ KeyOf(i) \in DefaultTags)

C6_Witness ==
    /\ Returned
    /\ Len(LastRecords) = 2
    /\ LastRecords[1].tags = <<"dev", "ops">>
    /\ LastRecords[2].tags = <<"dev">>
    /\ LastRecords[1].message # LastRecords[2].message
    /\ Matches(LastRecords[1]) = {"dev"}
    /\ KeyOf(1) = "dev"
    /\ KeyOf(2) = "dev"

RateLess == {i \in Resolved : LastRecords[i].rate = None}

ResolvedDefaultRate ==
    IF recipient.default_rate # None THEN recipient.default_rate[1]
    ELSE IF config.payment_default_rate # None THEN config.payment_default_rate[1]
    ELSE 100

\* C7: whatever worklog is passed to add_worklog, the price of the position
\* of a record without a rate is the invoice's default rate: the
\* recipient's default rate if set, else the biller's payment default rate
\* if set, else 100.
C7_PriceIsInvoiceDefaultRate ==
    \A i \in RateLess : PriceOf(i) = F32(ResolvedDefaultRate)

\* C7 as amended: the price of the position of a record without a rate is
\* the rate of the worklog passed to add_worklog (100 unless set_rate has
\* changed it); Invoicer::generate sets that rate to the invoice's default
\* rate before the call, so there the price is the recipient's default rate
\* if set, else the biller's payment default rate if set, else 100.
C7_PriceIsWorklogRate ==
    \A i \in RateLess :
        /\ PriceOf(i) = F32(call.worklog.rate)
        /\ call.via = "add_worklog" => PriceOf(i) = F32(100)
        /\ call.via = "generate" => PriceOf(i) = F32(ResolvedDefaultRate)

C7_Witness ==
    /\ Returned
    /\ call.via = "generate"
    /\ recipient.default_rate = None
    /\ config.payment_default_rate = Some(90)
    /\ RateLess # {}
    /\ \E i \in RateLess : PriceOf(i) = F32(90)

\* the positions add_worklog puts on a new invoice for the worklog w
Fresh(w) == AddWorklog(InvoiceNew, w, recipient, config).invoice.positions

\* C19: an add_worklog call leaves the positions the invoice held where and
\* as they were and appends the positions it aggregated from its worklog
\* (those it would put on a new invoice), also when an earlier position has
\* the same key; a second call with the worklog of the first gives the
\* first call's positions twice.
C19_CallsAccumulate ==
    Returned =>
        /\ invoice.positions = call.before.positions \o Fresh(call.worklog)
        /\ (call.n = 2 /\ call.again) =>
              invoice.positions = Fresh(call.worklog) \o Fresh(call.worklog)

C19_Witness ==
    /\ Returned
    /\ call.n = 2
    /\ call.again
    /\ Len(call.worklog.records) = 1
    /\ call.keys = << <<"dev">>, <<"dev">> >>
    /\ Len(invoice.positions) = 2
    /\ invoice.positions[1] = invoice.positions[2]
    /\ invoice.positions[1].text = "Development"

(***************************************************************************)
(* SpecTemplate: TexTemplate::generate, one step for each template line    *)
(* of its loop and one for its return.                                     *)
(***************************************************************************)
\* the largest number of lines of a template file
MaxLines == 3

TemplateLines ==
    { <<"text">>,
      <<MarkerPiece, "FOO">>,
      <<" ", MarkerPiece, " ", "FOO", " ">>,
      <<MarkerPiece, "BAD">>,
      <<InputPiece, "part", "}">>,
      <<InputPiece, "none", "}">>,
      <<" ", InputPiece, "part", "}">> }

\* the lines of templates/part.tex
PartLines ==
    << <<MarkerPiece, "FOO">>, <<InputPiece, "part", "}">>, <<"text">> >>

\* the handlers that can be registered: FOO writes two lines, BAD writes
\* one and returns an error
FooHandler == [ok |-> TRUE, lines |-> << <<"foo 1">>, <<"foo 2">> >>]

BadHandler == [ok |-> FALSE, lines |-> << <<"bad 1">> >>]

TokenMaps ==
    { <<>>,
      [n \in {<<"FOO">>} |-> FooHandler],
      [n \in {<<"FOO">>, <<"BAD">>} |->
          IF n = <<"FOO">> THEN FooHandler ELSE BadHandler] }

FileMaps == { <<>>, [f \in {<<"part">>} |-> PartLines] }

InitTemplate ==
    /\ WorklogIdle
    /\ InvoiceIdle
    /\ MergeIdle
    /\ ApplyIdle
    /\ RunIdle
    /\ status = "running"
    /\ tex \in {[template |-> t, tokens |-> k, files |-> f, line |-> 1,
                 out |-> <<>>, result |-> "running"] :
                  t \in {None} \cup {Some(l) : l \in SeqsUpTo(TemplateLines, MaxLines)},
                  k \in TokenMaps, f \in FileMaps}

AtLine ==
    /\ tex.result = "running"
    /\ tex.template # None
    /\ tex.line <= Len(tex.template[1])

\* generate_tex.rs 74-78
GenerateInput ==
    /\ AtLine
    /\ IsInput(tex.template[1][tex.line])
    /\ LET r == InlineInput(tex.files, InputFilename(tex.template[1][tex.line]))
       IN  tex' = [tex EXCEPT !.out = @ \o Written(r.lines, "input", tex.line),
                              !.line = @ + 1,
                              !.result = IF r.ok THEN "running" ELSE "err"]
    /\ UNCHANGED <<worklog, filtered, recipient, config, invoice, status, call,
                   lhs, rhs, merged, arg, ret, run>>

\* generate_tex.rs 79-85
GenerateLine ==
    /\ AtLine
    /\ ~IsInput(tex.template[1][tex.line])
    /\ LET r == WriteLine(tex.tokens, tex.template[1][tex.line], tex.line)
       IN  tex' = [tex EXCEPT !.out = @ \o r.out,
                              !.line = @ + 1,
                              !.result = IF r.ok THEN "running" ELSE "err"]
    /\ UNCHANGED <<worklog, filtered, recipient, config, invoice, status, call,
                   lhs, rhs, merged, arg, ret, run>>

\* generate_tex.rs 70, 89: the template cannot be opened or has no line left
GenerateReturn ==
    /\ tex.result = "running"
    /\ IF tex.template = None THEN TRUE ELSE tex.line > Len(tex.template[1])
    /\ tex' = [tex EXCEPT !.result = "ok"]
    /\ UNCHANGED <<worklog, filtered, recipient, config, invoice, status, call,
                   lhs, rhs, merged, arg, ret, run>>

NextTemplate == GenerateInput \/ GenerateLine \/ GenerateReturn

SpecTemplate == InitTemplate /\ [][NextTemplate]_vars

\* the lines of the template generate has gone through
Passed == IF tex.template = None THEN {} ELSE 1..(tex.line - 1)

TemplateLine(i) == tex.template[1][i]

\* what was written while generate was at line i
Segment(i) == SelectSeq(tex.out, LAMBDA e : e.at = i)

Texts(entries) == [k \in 1..Len(entries) |-> entries[k].text]

InTemplateOrder ==
    \A a, b \in 1..Len(tex.out) : a < b => tex.out[a].at <= tex.out[b].at

\* the name of a %$NAME line: what follows %$ on the line, without blanks
MarkerName(line) ==
    LET l == Trim(line)
    IN  IF l # <<>> /\ l[1] = MarkerPiece
        THEN Some(Trim(SelectSeq(l, LAMBDA p : p # MarkerPiece)))
        ELSE None

IsMarker(line) == MarkerName(line) # None

Registered(line) == IsMarker(line) /\ MarkerName(line)[1] \in DOMAIN tex.tokens

IsIncludeLine(line) == line # <<>> /\ line[1] = InputPiece

\* the file an include line names: what stands between \input{ and }
IncludedFile(line) == SelectSeq(line, LAMBDA p : p \notin {InputPiece, "}"})

Opens(line) == IncludedFile(line) \in DOMAIN tex.files

\* C11: for a marker line %$NAME with a handler registered for NAME, the
\* line is written first and the handler's output right after it, before
\* anything of the next template line; for a marker line without a
\* registered handler only the line is written.
C11_MarkerThenCallback ==
    /\ InTemplateOrder
    /\ \A i \in Passed :
         IsMarker(TemplateLine(i)) =>
           IF Registered(TemplateLine(i))
           THEN /\ Segment(i) =
                     Written(<<TemplateLine(i)>>, "line", i)
                     \o Written(tex.tokens[MarkerName(TemplateLine(i))[1]].lines,
                                "token", i)
           ELSE Segment(i) = Written(<<TemplateLine(i)>>, "line", i)

C11_Witness ==
    /\ tex.result = "ok"
    /\ tex.template # None
    /\ Len(tex.template[1]) = 3
    /\ TemplateLine(1) = <<" ", MarkerPiece, " ", "FOO", " ">>
    /\ TemplateLine(2) = <<"text">>
    /\ TemplateLine(3) = <<MarkerPiece, "BAD">>
    /\ Registered(TemplateLine(1))
    /\ ~Registered(TemplateLine(3))
    /\ Texts(tex.out) = << TemplateLine(1), <<"foo 1">>, <<"foo 2">>,
                           <<"text">>, <<MarkerPiece, "BAD">> >>

\* C12: for an include line whose file opens, the include line itself is
\* not written; what is written in its place is the lines of the included
\* file, unchanged and in order, and nothing else: no handler's output and
\* no line of a further included file, also where a line of the included
\* file is a marker line or an include line.
C12_IncludeSplicesFile ==
    \A i \in Passed :
        (IsIncludeLine(TemplateLine(i)) /\ Opens(TemplateLine(i))) =>
            /\ Texts(Segment(i)) = tex.files[IncludedFile(TemplateLine(i))]
            /\ \A k \in 1..Len(Segment(i)) : Segment(i)[k].by = "input"
            /\ InTemplateOrder

C12_Witness ==
    /\ tex.result = "ok"
    /\ tex.template # None
    /\ Len(tex.template[1]) = 2
    /\ TemplateLine(1) = <<InputPiece, "part", "}">>
    /\ TemplateLine(2) = <<"text">>
    /\ <<"FOO">> \in DOMAIN tex.tokens
    /\ Texts(tex.out) = PartLines \o << <<"text">> >>
    /\ \E k \in 1..Len(PartLines) : IsMarker(PartLines[k])
    /\ \E k \in 1..Len(PartLines) : IsIncludeLine(PartLines[k])

\* C13: for an include line whose file cannot be opened nothing is written;
\* generate goes on with the next template line, and it returns an error
\* only when a handler has returned one: a missing file never makes it
\* return an error, and once it has returned Ok every line of the template
\* has been gone through.
C13_MissingIncludeIsSkipped ==
    /\ \A i \in Passed :
         (IsIncludeLine(TemplateLine(i)) /\ ~Opens(TemplateLine(i))) =>
           /\ Segment(i) = <<>>
           /\ (tex.result = "err" => i < tex.line - 1)
    /\ tex.result = "err" =>
         /\ Registered(TemplateLine(tex.line - 1))
         /\ ~tex.tokens[MarkerName(TemplateLine(tex.line - 1))[1]].ok
    /\ (tex.result = "ok" /\ tex.template # None) =>
         /\ tex.line = Len(tex.template[1]) + 1
         /\ \A i \in Passed :
              ~IsIncludeLine(TemplateLine(i)) =>
                 /\ Segment(i) # <<>>
                 /\ Segment(i)[1].text = TemplateLine(i)
                 /\ Registered(TemplateLine(i)) => Len(Segment(i)) > 1
    /\ tex.result = "running" => ENABLED NextTemplate

C13_Witness ==
    /\ tex.result = "ok"
    /\ tex.template # None
    /\ Len(tex.template[1]) = 3
    /\ TemplateLine(1) = <<"text">>
    /\ TemplateLine(2) = <<InputPiece, "part", "}">>
    /\ ~Opens(TemplateLine(2))
    /\ TemplateLine(3) = <<MarkerPiece, "FOO">>
    /\ Texts(tex.out) = << <<"text">>, <<MarkerPiece, "FOO">>, <<"foo 1">>, <<"foo 2">> >>

\* C14: the output without the lines written by handlers and by includes is
\* the template's lines that are not include lines, as far as generate has
\* gone: each once, unchanged, in template order; when generate returns Ok
\* it has gone through the whole template.
C14_TemplateLinesVerbatim ==
    /\ Texts(SelectSeq(tex.out, LAMBDA e : e.by = "line")) =
         IF tex.template = None THEN <<>>
         ELSE SelectSeq(SubSeq(tex.template[1], 1, tex.line - 1),
                        LAMBDA l : ~IsIncludeLine(l))
    /\ (tex.result = "ok" /\ tex.template # None) =>
         tex.line = Len(tex.template[1]) + 1

C14_Witness ==
    /\ tex.result = "ok"
    /\ tex.template # None
    /\ Len(tex.template[1]) = 3
    /\ TemplateLine(1) = <<" ", InputPiece, "part", "}">>
    /\ TemplateLine(2) = <<InputPiece, "part", "}">>
    /\ Opens(TemplateLine(2))
    /\ TemplateLine(3) = <<" ", MarkerPiece, " ", "FOO", " ">>
    /\ Registered(TemplateLine(3))
    /\ Texts(SelectSeq(tex.out, LAMBDA e : e.by = "line")) =
         <<TemplateLine(1), TemplateLine(3)>>
    /\ Len(tex.out) = 7

(***************************************************************************)
(* SpecSettings: the settings of an Invoice made for a recipient whose     *)
(* file sets none, one or all of them, under a global configuration that   *)
(* sets none, one or all of them.                                          *)
(***************************************************************************)
RecipientValues ==
    [locale_str |-> "de",
     template |-> "letter.tex",
     date_format |-> <<"%d", ".", "%m", ".", "%Y">>,
     number_format |-> <<"R", "%Y", "${COUNTER}">>,
     filename_format |-> <<"${RECIPIENT}", ".tex">>,
     days_for_payment |-> 30,
     calculate_value_added_tax |-> FALSE,
     timesheet_template |-> "hours.tex"]

GlobalValues ==
    [locale_str |-> "fr",
     template |-> "plain.tex",
     date_format |-> <<"%m", "/", "%d", "/", "%Y">>,
     number_format |-> <<"%Y", "-", "${COUNTER}">>,
     filename_format |-> <<"${INVOICENUMBER}", ".tex">>,
     days_for_payment |-> 7,
     calculate_value_added_tax |-> TRUE,
     timesheet_template |-> "timesheet.tex"]

\* the InvoiceConfigs that set none, one or all of the settings
InvoiceConfigs(values) ==
    {InvoiceConfigNone, [f \in SettingNames |-> Some(values[f])]}
    \cup {[f \in SettingNames |-> IF f = g THEN Some(values[f]) ELSE None] :
             g \in SettingNames}

InitSettings ==
    /\ WorklogIdle
    /\ InvoiceIdle
    /\ MergeIdle
    /\ TexIdle
    /\ RunIdle
    /\ status = "running"
    /\ arg \in {Some(InvoiceOf(r, g)) : r \in InvoiceConfigs(RecipientValues),
                                        g \in InvoiceConfigs(GlobalValues)}
    /\ ret = None

\* the Invoice reads one of its settings
UseSetting(name) ==
    /\ ret' = Some([name |-> name, value |-> InvoiceSetting(arg[1], name)])
    /\ UNCHANGED <<worklog, filtered, recipient, config, invoice, status, call,
                   lhs, rhs, merged, tex, arg, run>>

NextSettings == \E name \in SettingNames : UseSetting(name)

SpecSettings == InitSettings /\ [][NextSettings]_vars

\* C15: every setting an Invoice uses is the recipient-level value when the
\* recipient sets it, else the global value when the global configuration
\* sets it, else the hardcoded default.
C15_RecipientThenGlobalThenDefault ==
    ret # None =>
        LET name == ret[1].name
            rcp == arg[1].recipient.invoice[name]
            glb == arg[1].config[name]
        IN  ret[1].value =
              IF rcp # None THEN rcp[1]
              ELSE IF glb # None THEN glb[1]
              ELSE SettingDefault[name]

\* what the code does: the precedence holds for the locale; every other
\* setting is the global value when set, else the default
C15_GlobalThenDefault ==
    ret # None =>
        LET name == ret[1].name
            rcp == arg[1].recipient.invoice[name]
            glb == arg[1].config[name]
        IN  ret[1].value =
              IF name = "locale_str" /\ rcp # None THEN rcp[1]
              ELSE IF glb # None THEN glb[1]
              ELSE SettingDefault[name]

(***************************************************************************)
(* SpecNumber: Invoice::number on a number format, a date and a counter.   *)
(***************************************************************************)
\* the largest number of pieces of a number format
MaxPattern == 3

PatternPieces == {"%Y", "%m", "${COUNTER}", "-"}

InitNumber ==
    /\ WorklogIdle
    /\ InvoiceIdle
    /\ MergeIdle
    /\ TexIdle
    /\ RunIdle
    /\ status = "running"
    /\ arg \in {Some([number_format |-> f, year |-> y, month |-> m, counter |-> c]) :
                   f \in SeqsUpTo(PatternPieces, MaxPattern),
                   y \in {987, 2024}, m \in {3, 11}, c \in {7, 12, 123}}
    /\ ret = None

CallNumber ==
    /\ ret = None
    /\ ret' = Some(Number(arg[1].number_format, arg[1].year, arg[1].month,
                          arg[1].counter))
    /\ UNCHANGED <<worklog, filtered, recipient, config, invoice, status, call,
                   lhs, rhs, merged, tex, arg, run>>

NextNumber == CallNumber

SpecNumber == InitNumber /\ [][NextNumber]_vars

\* the digit of n that stands for 10^k
DigitAt(n, k) == DigitChars[((n \div (10 ^ k)) % 10) + 1]

\* n in decimal, in at least `places` places
Shown(n, places) ==
    LET k == CHOOSE j \in places..(places + 3) :
                 n < 10 ^ j /\ (j = places \/ n >= 10 ^ (j - 1))
    IN  [i \in 1..k |-> DigitAt(n, k - i)]

\* C16: number() is the number format with every %Y replaced by the year in
\* four digits, every %m by the month in two digits and every ${COUNTER} by
\* the counter (in two digits when it is below 10), every other piece where
\* and as it was; %Y%m${COUNTER} in year 2024, month 3, with counter 7 gives
\* 20240307.
C16_NumberFormat ==
    ret # None =>
        LET f == arg[1].number_format
            Piece(p) == IF p = "%Y" THEN Shown(arg[1].year, 4)
                        ELSE IF p = "%m" THEN Shown(arg[1].month, 2)
                        ELSE IF p = "${COUNTER}" THEN Shown(arg[1].counter, 2)
                        ELSE <<p>>
        IN  /\ ret[1] = Flatten([i \in 1..Len(f) |-> Piece(f[i])])
            /\ ( /\ f = <<"%Y", "%m", "${COUNTER}">>
                 /\ arg[1].year = 2024 /\ arg[1].month = 3 /\ arg[1].counter = 7 )
               => ret[1] = <<"2", "0", "2", "4", "0", "3", "0", "7">>

C16_Witness ==
    /\ arg = Some([number_format |-> <<"%Y", "%m", "${COUNTER}">>,
                   year |-> 2024, month |-> 3, counter |-> 7])
    /\ ret = Some(<<"2", "0", "2", "4", "0", "3", "0", "7">>)

(***************************************************************************)
(* SpecTags: RecipientTagInfo::from on a tag value of a recipient file.    *)
(***************************************************************************)
\* the largest number of pieces of a tag value
MaxValue == 3

ValuePieces == {"[default]", " ", "Consulting", "Support"}

InitTags ==
    /\ WorklogIdle
    /\ InvoiceIdle
    /\ MergeIdle
    /\ TexIdle
    /\ RunIdle
    /\ status = "running"
    /\ arg \in {Some(v) : v \in SeqsUpTo(ValuePieces, MaxValue)}
    /\ ret = None

ParseTagValue ==
    /\ ret = None
    /\ ret' = Some(RecipientTagInfoFrom(arg[1]))
    /\ UNCHANGED <<worklog, filtered, recipient, config, invoice, status, call,
                   lhs, rhs, merged, tex, arg, run>>

NextTags == ParseTagValue

SpecTags == InitTags /\ [][NextTags]_vars

\* C17: a tag value (read without the blanks around it) that starts with
\* [default] gives is_default = true and as position_text the label, that
\* is the value without the prefix and the blank after it ("[default]
\* Consulting" gives "Consulting"); a value that does not start with
\* [default] gives is_default = false and the value itself as position_text
\* ("Support" gives "Support").
C17_DefaultPrefixStripped ==
    ret # None =>
        LET value == Trim(arg[1])
        IN  IF value # <<>> /\ value[1] = "[default]"
            THEN /\ ret[1].is_default
                 /\ ret[1].position_text = Trim(Tail(value))
            ELSE /\ ~ret[1].is_default
                 /\ ret[1].position_text = value


(***************************************************************************)
(* SpecGenerate: Invoicer::generate.  The store is `worklog`, the biller's *)
(* configuration is `config`.  Each recipient carries what the file system *)
(* holds for it: whether its locale file can be loaded and translates      *)
(* "invoice", whether the tex file of its invoice exists already and       *)
(* whether that file can be created.  The recipients differ in their      *)
(* names.  The directories (mkdir) and the fingerprint file can be         *)
(* created.                                                                *)
(***************************************************************************)
MaxRecipients == 2

RunNames == {"acme", "bolt", "core"}

\* a recipient with no problem, or with one
RunRecipients ==
    {[name |-> n, default_rate |-> None, tags |-> <<>>,
      locale |-> l, exists |-> e, writable |-> w] :
        n \in RunNames, l \in {"ok"}, e \in {FALSE}, w \in {TRUE}}
    \cup {[name |-> n, default_rate |-> None, tags |-> <<>>,
           locale |-> l, exists |-> FALSE, writable |-> TRUE] :
             n \in RunNames, l \in {"missing", "untranslated"}}
    \cup {[name |-> n, default_rate |-> None, tags |-> <<>>,
           locale |-> "ok", exists |-> TRUE, writable |-> TRUE] : n \in RunNames}
    \cup {[name |-> n, default_rate |-> None, tags |-> <<>>,
           locale |-> "ok", exists |-> FALSE, writable |-> FALSE] : n \in RunNames}

RunRecord(name) == WorklogRecord(<<name>>, 1, 2, None, "Coding")

RunWorklogs ==
    {WorklogFromRecords(records) :
        records \in {<<>>, <<RunRecord("acme")>>, <<RunRecord("bolt")>>,
                     <<RunRecord("acme"), RunRecord("bolt")>>}}

\* the counter the invoice takes and the counter of the next invoice
GenerateNumber(counter) == [number |-> counter, next |-> counter + 1]

\* invoice.rs 268-278, 406-411 and locale.rs 97-99: filename() loads the
\* locale and translates "invoice", unwrapping both
FilenamePanics(rcp) == rcp.locale # "ok"

\* how an iteration ended: the recipient, the outcome, the counter of the
\* invoice and its positions (their number and the positions themselves)
Ended(rcp, outcome, counter, items) ==
    [name |-> rcp.name, outcome |-> outcome, number |-> counter,
     positions |-> Len(items), items |-> items]

\* invoicer.rs 316-326: what follows add_worklog
AfterAddWorklog(rcp, r, counter) ==
    IF r.panicked THEN Ended(rcp, "panicked", counter, r.invoice.positions)
    ELSE IF r.invoice.positions = <<>> THEN Ended(rcp, "no_positions", counter, <<>>)
    ELSE IF rcp.exists THEN Ended(rcp, "exists", counter, r.invoice.positions)
    ELSE IF ~rcp.writable THEN Ended(rcp, "err", counter, r.invoice.positions)
    ELSE Ended(rcp, "written", counter, r.invoice.positions)

\* the loop body filtering the store by a fixed tag, not the recipient's name
IterationFixedTag(rcp, store, cfg, counter) ==
    IF FilenamePanics(rcp) THEN Ended(rcp, "panicked", counter, <<>>)
    ELSE AfterAddWorklog(
           rcp,
           AddWorklog(InvoiceNew,
                      WorklogSetRate(FromRecordsWithTag(store, "acme"),
                                     DefaultRate(rcp, cfg)),
                      rcp, cfg),
           counter)

\* invoicer.rs 306-340: the body of the loop, for one recipient and the
\* counter generate_number gave its invoice
Iteration(rcp, store, cfg, counter) ==
    IF FilenamePanics(rcp) THEN Ended(rcp, "panicked", counter, <<>>)
    ELSE AfterAddWorklog(
           rcp,
           AddWorklog(InvoiceNew,
                      WorklogSetRate(FromRecordsWithTag(store, rcp.name),
                                     DefaultRate(rcp, cfg)),
                      rcp, cfg),
           counter)

\* bimap's BiMap::insert: the pairs holding the left or the right value
\* are removed, the pair is added
BiMapInsert(m, left, right) ==
    SelectSeq(m, LAMBDA p : p.left # left /\ p.right # right)
    \o << [left |-> left, right |-> right] >>

\* the identifier derived from the content of the invoice
Fingerprint(ended) == [recipient |-> ended.name, positions |-> ended.items]

\* the date of the run
RunYear == 2024

RunMonth == 3

\* invoicer.rs 165-167: add, called for an invoice that was written (327)
FingerprintsAdd(fingerprints, ended) ==
    IF ended.outcome # "written" THEN fingerprints
    ELSE BiMapInsert(fingerprints, Fingerprint(ended),
                     Number(SettingDefault.number_format, RunYear, RunMonth,
                            ended.number))

RunResult(outcome) ==
    IF outcome \in {"panicked", "err"} THEN outcome ELSE "running"

InitGenerate ==
    /\ MergeIdle
    /\ TexIdle
    /\ ApplyIdle
    /\ worklog \in RunWorklogs
    /\ filtered = NoFiltered
    /\ recipient = NoRecipient
    /\ config \in {[payment_default_rate |-> None, timesheet_template |-> t,
                    locale_exists |-> TRUE] : t \in {None, Some("timesheet.tex")}}
    /\ invoice = InvoiceNew
    /\ call = NoCall
    /\ status = "running"
    /\ run \in {[NoRun EXCEPT !.recipients = r, !.result = "running",
                             !.entry = [worklog |-> worklog, config |-> config]] :
                  r \in {q \in SeqsUpTo(RunRecipients, MaxRecipients) :
                           \A i, j \in 1..Len(q) :
                               q[i].name = q[j].name => i = j}}

\* invoicer.rs 297-299
GenerateEmpty ==
    /\ run.result = "running"
    /\ run.recipients = <<>>
    /\ run' = [run EXCEPT !.result = "err"]
    /\ UNCHANGED <<worklog, filtered, recipient, config, invoice, status, call,
                   lhs, rhs, merged, tex, arg, ret>>

Iterated(ended) ==
    /\ run' = [run EXCEPT !.next = @ + 1,
                          !.counter = GenerateNumber(@).next,
                          !.fingerprints = FingerprintsAdd(@, ended),
                          !.done = Append(@, ended),
                          !.result = RunResult(ended.outcome)]
    /\ status' = IF ended.outcome = "panicked" THEN "panicked" ELSE status
    /\ UNCHANGED <<worklog, filtered, recipient, config, invoice, call,
                   lhs, rhs, merged, tex, arg, ret>>

\* invoicer.rs 306-340
GenerateRecipient ==
    /\ run.result = "running"
    /\ run.next <= Len(run.recipients)
    /\ Iterated(Iteration(run.recipients[run.next], worklog, config,
                          GenerateNumber(run.counter).number))

\* invoicer.rs 342-348
GenerateSave ==
    /\ run.result = "running"
    /\ run.recipients # <<>>
    /\ run.next > Len(run.recipients)
    /\ run' = [run EXCEPT !.result = "ok"]
    /\ UNCHANGED <<worklog, filtered, recipient, config, invoice, status, call,
                   lhs, rhs, merged, tex, arg, ret>>

NextGenerate == GenerateEmpty \/ GenerateRecipient \/ GenerateSave

SpecGenerate == InitGenerate /\ [][NextGenerate]_vars

Reached(i) == i \in 1..Len(run.done)

HasRecords(rcp) == FromRecordsWithTag(worklog, rcp.name).records # <<>>

\* C18: whatever the invoice configuration (with or without a timesheet
\* template), a recipient whose filtered worklog is empty has add_worklog
\* complete with zero positions, and generate takes the no-positions path
\* for it and writes no file.
C18_EmptyWorklogIsSkipped ==
    \A i \in 1..Len(run.done) :
        (run.recipients[i].locale = "ok" /\ ~HasRecords(run.recipients[i])) =>
            /\ run.done[i].outcome = "no_positions"
            /\ run.done[i].positions = 0

\* what holds of C18: without a timesheet template the empty worklog is
\* skipped with the warning
C18_EmptyWorklogIsSkippedWithoutTimesheet ==
    config.timesheet_template = None => C18_EmptyWorklogIsSkipped

Sound(rcp) ==
    /\ rcp.locale = "ok"
    /\ ~rcp.exists
    /\ rcp.writable
    /\ HasRecords(rcp)

\* C20: a problem confined to one recipient (zero positions, an existing
\* output file, a missing locale file or translation, an output file that
\* cannot be written) does not keep generate from writing the invoices of
\* the recipients after it: once generate has ended, the invoice of every
\* recipient that has no problem of its own is written.
C20_ProblemsStayWithTheirRecipient ==
    run.result \in {"ok", "err", "panicked"} =>
        \A i \in 1..Len(run.recipients) :
            Sound(run.recipients[i]) =>
                Reached(i) /\ run.done[i].outcome = "written"

\* what holds of C20: a recipient without positions (where add_worklog
\* returns) or whose file exists is skipped and the loop goes on
C20_SkippedRecipientsDoNotStop ==
    \A i \in 1..Len(run.done) :
        run.done[i].outcome \in {"no_positions", "exists"} =>
            \/ run.result \in {"running", "ok"}
            \/ Len(run.done) > i

(***************************************************************************)
(* SpecTimesheet: the timesheet of an invoice.  The recipient's file and   *)
(* the global configuration each set a timesheet template or none, the     *)
(* locale file of the invoice exists or not, and the records differ in     *)
(* their start and their hours.                                            *)
(***************************************************************************)
TimesheetRecords ==
    {WorklogRecord(<<"dev">>, s, h, None, "Coding") : s \in {1, 4}, h \in {1, 2}}

InitTimesheet ==
    /\ WorklogIdle
    /\ MergeIdle
    /\ TexIdle
    /\ ApplyIdle
    /\ RunIdle
    /\ recipient \in {[name |-> "acme", default_rate |-> None, tags |-> <<>>,
                       invoice |-> [timesheet_template |-> t]] :
                         t \in {None, Some("hours.tex")}}
    /\ config \in {[payment_default_rate |-> None, timesheet_template |-> t,
                    locale_exists |-> l] :
                      t \in {None, Some("timesheet.tex")}, l \in BOOLEAN}
    /\ invoice = InvoiceNew
    /\ call = NoCall
    /\ status = "running"

NextTimesheet == AddWorklogTo(TimesheetRecords)

SpecTimesheet == InitTimesheet /\ [][NextTimesheet]_vars

\* C21: after add_worklog with a non-empty worklog, the invoice has a
\* timesheet if and only if the recipient or the global configuration sets
\* a timesheet template.
C21_TimesheetIffTemplate ==
    (Returned /\ call.worklog.records # <<>>) =>
        (invoice.timesheet # None <=>
            \/ recipient.invoice.timesheet_template # None
            \/ config.timesheet_template # None)

\* what holds of C21: the timesheet is there if and only if the global
\* configuration sets a template
C21_TimesheetIffGlobalTemplate ==
    (Returned /\ call.worklog.records # <<>>) =>
        (invoice.timesheet # None <=> config.timesheet_template # None)

Count(s, x) == Cardinality({i \in 1..Len(s) : s[i] = x})

\* the two sequences hold the same elements, each as many times
SameElements(s, t) ==
    /\ Len(s) = Len(t)
    /\ \A x \in Range(s) \cup Range(t) : Count(s, x) = Count(t, x)

TimesheetRecordsOf(inv) == UnwrapOr(inv.timesheet, WorklogNew).records

\* C22: when timesheet generation is enabled, an add_worklog call that
\* returns leaves in the timesheet the records it held before the call and
\* the records of the call's worklog (each as many times as passed, none
\* dropped, none added), in ascending order of their start.
C22_TimesheetHoldsAllRecordsSorted ==
    (Returned /\ GenerateTimesheet(config, invoice.timesheet)) =>
        /\ invoice.timesheet # None
        /\ SameElements(TimesheetRecordsOf(invoice),
                        TimesheetRecordsOf(call.before) \o call.worklog.records)
        /\ \A i, j \in 1..Len(TimesheetRecordsOf(invoice)) :
              i < j => RecordBeginDate(TimesheetRecordsOf(invoice)[i])
                          <= RecordBeginDate(TimesheetRecordsOf(invoice)[j])

C22_Witness ==
    /\ Returned
    /\ call.n = 2
    /\ config.timesheet_template # None
    /\ Len(TimesheetRecordsOf(call.before)) = 2
    /\ TimesheetRecordsOf(call.before)[1].start = 4
    /\ Len(call.worklog.records) = 1
    /\ call.worklog.records[1].start = 1
    /\ Len(TimesheetRecordsOf(invoice)) = 3
    /\ TimesheetRecordsOf(invoice)[1].start = 1

(***************************************************************************)
(* SpecSum: Worklog::sum on a worklog whose records have a rate of their   *)
(* own or none, after set_rate.                                            *)
(***************************************************************************)
SumRecords ==
    {WorklogRecord(<<"dev">>, 1, h, r, "Coding") :
        h \in {2, 3}, r \in {None, Some(50)}}

InitSum ==
    /\ WorklogIdle
    /\ InvoiceIdle
    /\ MergeIdle
    /\ TexIdle
    /\ RunIdle
    /\ status = "running"
    /\ arg \in {Some(WorklogSetRate(WorklogFromRecords(records), rate)) :
                  records \in SeqsUpTo(SumRecords, MaxRecords),
                  rate \in {80, 100}}
    /\ ret = None

CallSum ==
    /\ ret = None
    /\ ret' = Some(WorklogSum(arg[1]))
    /\ UNCHANGED <<worklog, filtered, recipient, config, invoice, status, call,
                   lhs, rhs, merged, tex, arg, run>>

NextSum == CallSum

SpecSum == InitSum /\ [][NextSum]_vars

RECURSIVE ValueAt(_, _, _)
\* hours times the rate of each record, the records without a rate taking
\* the given one, added up
ValueAt(sum, records, rate) ==
    IF records = <<>> THEN sum
    ELSE ValueAt(FAdd(sum, FMul(F32(Head(records).hours),
                                F32(UnwrapOr(Head(records).rate, rate)))),
                 Tail(records), rate)

\* C23: the net of a record is its hours times its own rate, or times the
\* default rate of the worklog when it has none, and Worklog::sum is the
\* sum of these nets.
C23_SumUsesDefaultRate ==
    ret # None =>
        /\ \A i \in 1..Len(arg[1].records) :
              RecordNet(arg[1].records[i]) =
                FMul(F32(arg[1].records[i].hours),
                     F32(UnwrapOr(arg[1].records[i].rate, arg[1].rate)))
        /\ ret[1] = ValueAt(F32(0), arg[1].records, arg[1].rate)

\* what holds of C23: a record without a rate counts as nothing
C23_SumUsesZeroRate ==
    ret # None => ret[1] = ValueAt(F32(0), arg[1].records, 0)

(***************************************************************************)
(* SpecFields: the Tags field of a CSV record, parsed by deserialize_tags  *)
(* and added to a worklog as Worklog::from_csv does.  The field is absent  *)
(* (its deserialization as a String fails) or a string of pieces; in this  *)
(* specification a tag is a sequence of pieces too, the empty string being *)
(* the empty sequence.                                                     *)
(***************************************************************************)
\* the largest number of pieces of a Tags field
MaxField == 3

FieldPieces == {",", " ", "dev", "ops"}

\* str::split(","): the items between the commas, the empty ones included
RECURSIVE SplitInto(_, _, _)
SplitInto(items, item, s) ==
    IF s = <<>> THEN Append(items, item)
    ELSE IF Head(s) = "," THEN SplitInto(Append(items, item), <<>>, Tail(s))
    ELSE SplitInto(items, Append(item, Head(s)), Tail(s))

Split(s) == SplitInto(<<>>, <<>>, s)

\* collect::<HashSet<String>>(): an element is kept once
RECURSIVE CollectInto(_, _)
CollectInto(set, items) ==
    IF items = <<>> THEN set
    ELSE CollectInto(IF Head(items) \in Range(set) THEN set
                     ELSE Append(set, Head(items)),
                     Tail(items))

\* worklog.rs 21-31
DeserializeTags(field) ==
    IF field = None THEN None
    ELSE Some(CollectInto(<<>>, [i \in 1..Len(Split(field[1])) |->
                                   Trim(Split(field[1])[i])]))

\* the record of a CSV line with the given Tags field; tags() is the empty
\* set when the field gave None (worklog.rs 48-53)
RecordOfField(field) ==
    WorklogRecord(UnwrapOr(DeserializeTags(field), <<>>), 1, 2, None, "Coding")

InitFields ==
    /\ WorklogIdle
    /\ InvoiceIdle
    /\ MergeIdle
    /\ TexIdle
    /\ RunIdle
    /\ status = "running"
    /\ arg \in {Some(None)}
               \cup {Some(Some(s)) : s \in SeqsUpTo(FieldPieces, MaxField)}
    /\ ret = None

\* worklog.rs 88-93: the record is deserialized and added to the worklog
FromCsvRecord ==
    /\ ret = None
    /\ ret' = Some(RecordOfField(arg[1]))
    /\ worklog' = WorklogAddRecord(worklog, RecordOfField(arg[1]))
    /\ UNCHANGED <<filtered, recipient, config, invoice, status, call,
                   lhs, rhs, merged, tex, arg, run>>

NextFields == FromCsvRecord

SpecFields == InitFields /\ [][NextFields]_vars

TrimmedItems(s) == {Trim(Split(s)[i]) : i \in 1..Len(Split(s))}

\* C24: the tags of a record are the comma-separated items of its Tags
\* field, each trimmed; a record whose field is absent or empty has no tag
\* (has_tag is false for every string, the empty one included) and adds
\* none to the tags of the worklog.
C24_TagsOfField ==
    ret # None =>
        IF arg[1] = None \/ arg[1] = Some(<<>>)
        THEN /\ RecordTags(ret[1]) = {}
             /\ ~HasTag(ret[1], <<>>)
             /\ worklog.tags = {}
        ELSE /\ RecordTags(ret[1]) = TrimmedItems(arg[1][1])
             /\ worklog.tags = TrimmedItems(arg[1][1])

\* what holds of C24: an absent field gives no tag, every other field the
\* set of its trimmed items, which for the empty field is the empty string
C24_TagsOfPresentField ==
    ret # None =>
        /\ RecordTags(ret[1]) =
             IF arg[1] = None THEN {} ELSE TrimmedItems(arg[1][1])
        /\ worklog.tags = RecordTags(ret[1])
        /\ \A tag \in TrimmedItems(<<"dev", ",", "ops", ",">>) :
              HasTag(ret[1], tag) <=> tag \in RecordTags(ret[1])

(***************************************************************************)
(* SpecCommands: generate_tex_commands on a Contact or a Payment           *)
(* (generate_tex.rs 5-21).  A struct is the sequence of its fields in      *)
(* declaration order, each with its name (a sequence of pieces), its Rust  *)
(* type and its value; a string is a sequence of pieces.                   *)
(***************************************************************************)
Field(name, type, value) == [name |-> name, type |-> type, value |-> value]

OptionTypes == {"Option<String>", "Option<f32>", "Option<Currency>"}

\* invoice.rs 15-27
Contact(companyname, country, phone, fax, website) ==
    << Field(<<"companyname">>, "Option<String>", companyname),
       Field(<<"fullname">>, "String", <<"Jane Doe">>),
       Field(<<"street">>, "String", <<"Main Street 1">>),
       Field(<<"zipcode">>, "u32", 12345),
       Field(<<"city">>, "String", <<"Springfield">>),
       Field(<<"country">>, "Option<String>", country),
       Field(<<"phone">>, "Option<String>", phone),
       Field(<<"fax">>, "Option<String>", fax),
       Field(<<"email">>, "String", <<"jane@example.org">>),
       Field(<<"website">>, "Option<String>", website) >>

\* invoice.rs 31-40
Payment(accountholder, currency, default_rate) ==
    << Field(<<"accountholder">>, "Option<String>", accountholder),
       Field(<<"iban">>, "String", <<"DE02120300000000202051">>),
       Field(<<"bic">>, "String", <<"BYLADEM1001">>),
       Field(<<"taxid">>, "String", <<"12/345/67890">>),
       Field(<<"currency">>, "Option<Currency>", currency),
       Field(<<"tax", "_", "rate">>, "f32", F32(19)),
       Field(<<"default", "_", "rate">>, "Option<f32>", default_rate) >>

\* helpers.rs 63-77: the downcasts of any_to_str
AnyToStr(field) ==
    IF field.type = "Option<String>" THEN field.value
    ELSE IF field.type = "String" THEN Some(field.value)
    ELSE IF field.type = "u32" THEN Some(Digits(field.value))
    ELSE None

\* generate_tex.rs 5-11: the command written for a name and a content
GenerateTexCommand(commandname, field) ==
    IF AnyToStr(field) = None THEN <<>>
    ELSE << [name |-> Remove(commandname, "_"), content |-> AnyToStr(field)[1]] >>

\* generate_tex.rs 14-20
RECURSIVE GenerateTexCommands(_, _)
GenerateTexCommands(fields, prefix) ==
    IF fields = <<>> THEN <<>>
    ELSE GenerateTexCommand(<<prefix>> \o Head(fields).name, Head(fields))
         \o GenerateTexCommands(Tail(fields), prefix)

OptString(v) == {None, Some(<<v>>)}

InitCommands ==
    /\ WorklogIdle
    /\ InvoiceIdle
    /\ MergeIdle
    /\ TexIdle
    /\ RunIdle
    /\ status = "running"
    /\ arg \in {Some([fields |-> f, prefix |-> p]) :
                  f \in {Contact(a, b, c, d, e) :
                           a \in OptString("ACME Ltd"), b \in OptString("Germany"),
                           c \in OptString("+49 30 1234"), d \in OptString("+49 30 1235"),
                           e \in OptString("example.org")}
                     \cup {Payment(a, c, r) :
                             a \in OptString("Jane Doe"), c \in {None, Some("USD")},
                             r \in {None, Some(F32(80))}},
                  p \in {"my", "recipient"}}
    /\ ret = None

CallGenerateTexCommands ==
    /\ ret = None
    /\ ret' = Some(GenerateTexCommands(arg[1].fields, arg[1].prefix))
    /\ UNCHANGED <<worklog, filtered, recipient, config, invoice, status, call,
                   lhs, rhs, merged, tex, arg, run>>

NextCommands == CallGenerateTexCommands

SpecCommands == InitCommands /\ [][NextCommands]_vars

IsPresent(field) == field.type \in OptionTypes => field.value # None

NamesOf(commands) == [i \in 1..Len(commands) |-> commands[i].name]

\* C25: generate_tex_commands with prefix p writes one command, named p
\* followed by the field name, for every field that is present (the
\* payment's tax rate, default rate and currency included), in the order of
\* the fields, and none for an absent optional field.
C25_OneCommandPerPresentField ==
    ret # None =>
        LET present == SelectSeq(arg[1].fields, IsPresent)
        IN  NamesOf(ret[1]) =
              [i \in 1..Len(present) |-> <<arg[1].prefix>> \o present[i].name]

HasText(field) == field.type \in {"String", "Option<String>", "u32"}

\* what holds of C25: the commands are those of the present fields that
\* are a String, an Option<String> or a u32
C25_OneCommandPerPresentTextField ==
    ret # None =>
        LET shown == SelectSeq(arg[1].fields,
                               LAMBDA f : IsPresent(f) /\ HasText(f))
        IN  /\ NamesOf(ret[1]) =
                 [i \in 1..Len(shown) |-> <<arg[1].prefix>> \o shown[i].name]
            /\ \A i \in 1..Len(shown) :
                  ret[1][i].content =
                    IF shown[i].type = "u32" THEN Digits(shown[i].value)
                    ELSE IF shown[i].type = "String" THEN shown[i].value
                    ELSE shown[i].value[1]

(***************************************************************************)
(* SpecFormat: Locale::format_number and format_amount (locale.rs          *)
(* 101-119).  A string is the sequence of its characters.  An amount is an *)
(* f32 given by its sign, its integer part and its thousandths (never a    *)
(* tie between two hundredths), or an i32 given by its sign and its value; *)
(* the decimal mark and the separator of the locales are one byte long.    *)
(***************************************************************************)
\* format!("{number:.precision$}") with precision 2: an integer ignores the
\* precision, a float is rounded to hundredths
Display2(number) ==
    LET hundredths == (number.milli + 5) \div 10
        units == number.units + hundredths \div 100
    IN  (IF number.neg THEN <<"-">> ELSE <<>>)
        \o (IF number.kind = "i32" THEN Digits(number.units)
            ELSE Digits(units) \o <<".">> \o ZeroPad(hundredths % 100, 2))

\* locale.rs 105-112: the characters of s from the last to the first, i
\* counting from 0
RECURSIVE SeparateInto(_, _, _, _, _)
SeparateInto(fs, s, i, decimal, separator) ==
    IF i = Len(s) THEN fs
    ELSE SeparateInto(
           <<s[Len(s) - i]>>
           \o (IF i % 3 = 0 /\ i > 2 + Len(decimal) THEN separator \o fs ELSE fs),
           s, i + 1, decimal, separator)

\* locale.rs 101-113 with precision 2
FormatNumber(locale, number) ==
    SeparateInto(<<>>, Replace(Display2(number), ".", locale.decimal), 0,
                 locale.decimal, locale.separator)

\* locale.rs 9-16, 29-31
CurrencySymbol(currency) ==
    IF currency = "EUR" THEN <<"€">>
    ELSE IF currency = "USD" THEN <<"$">>
    ELSE <<"€">>

\* locale.rs 115-119
FormatAmount(locale, number) ==
    Replace(Replace(locale.pattern, "#", FormatNumber(locale, number)),
            "!", CurrencySymbol(locale.currency))

FormatLocales ==
    {[decimal |-> m[1], separator |-> m[2], pattern |-> p, currency |-> c] :
        m \in {<< <<".">>, <<",">> >>, << <<",">>, <<".">> >>},
        p \in {<<"#", "!">>, <<"#", " ", "!">>, <<"!", "#">>},
        c \in {"EUR", "USD"}}

FormatAmounts ==
    {[kind |-> "f32", neg |-> n, units |-> u, milli |-> m] :
        n \in BOOLEAN, u \in {0, 7, 123, 1234, 123456, 1234567},
        m \in {0, 943, 996}}
    \cup {[kind |-> "i32", neg |-> n, units |-> u, milli |-> 0] :
            n \in BOOLEAN, u \in {0, 7, 123, 1234, 123456, 1234567}}

InitFormat ==
    /\ WorklogIdle
    /\ InvoiceIdle
    /\ MergeIdle
    /\ TexIdle
    /\ RunIdle
    /\ status = "running"
    /\ arg \in {Some([locale |-> l, number |-> x]) :
                  l \in FormatLocales, x \in FormatAmounts}
    /\ ret = None

CallFormatAmount ==
    /\ ret = None
    /\ ret' = Some(FormatAmount(arg[1].locale, arg[1].number))
    /\ UNCHANGED <<worklog, filtered, recipient, config, invoice, status, call,
                   lhs, rhs, merged, tex, arg, run>>

NextFormat == CallFormatAmount

SpecFormat == InitFormat /\ [][NextFormat]_vars

\* the digits in groups of three counted from the right, the separator
\* between the groups
RECURSIVE Grouped(_, _)
Grouped(digits, separator) ==
    IF Len(digits) <= 3 THEN digits
    ELSE Grouped(SubSeq(digits, 1, Len(digits) - 3), separator)
         \o separator \o SubSeq(digits, Len(digits) - 2, Len(digits))

\* the number with two fractional digits after the decimal mark and its
\* integer digits grouped
Rendered(locale, number) ==
    LET hundredths == (number.milli + 5) \div 10
        units == number.units + hundredths \div 100
    IN  (IF number.neg THEN <<"-">> ELSE <<>>)
        \o Grouped(Digits(units), locale.separator)
        \o locale.decimal \o ZeroPad(hundredths % 100, 2)

InPattern(locale, text) ==
    Replace(Replace(locale.pattern, "#", text), "!",
            CurrencySymbol(locale.currency))

English1234(kind, milli) ==
    /\ arg[1].locale = [decimal |-> <<".">>, separator |-> <<",">>,
                        pattern |-> <<"#", "!">>, currency |-> "EUR"]
    /\ arg[1].number = [kind |-> kind, neg |-> FALSE, units |-> 1234,
                        milli |-> milli]

\* C26: format_amount of a floating-point amount is the pattern with # as
\* the number with exactly two fractional digits after the decimal mark and
\* the separator exactly between the groups of three integer digits, and !
\* as the currency symbol; 1234.943 gives 1,234.94€ and the integer 1234
\* gives 1234€.
C26_FormatAmount ==
    ret # None =>
        /\ arg[1].number.kind = "f32" =>
              ret[1] = InPattern(arg[1].locale,
                                 Rendered(arg[1].locale, arg[1].number))
        /\ English1234("f32", 943) =>
              ret[1] = <<"1", ",", "2", "3", "4", ".", "9", "4", "€">>
        /\ English1234("i32", 0) => ret[1] = <<"1", "2", "3", "4", "€">>

\* what holds of C26: the claim for the amounts that are not negative
C26_FormatAmountNotNegative ==
    (ret # None /\ ~arg[1].number.neg) => C26_FormatAmount

\* the positions of the invoice of a recipient processed on its own
Alone(rcp) ==
    AddWorklog(InvoiceNew,
               WorklogSetRate(FromRecordsWithTag(worklog, rcp.name),
                              DefaultRate(rcp, config)),
               rcp, config).invoice.positions

C28_MergeAssertionNeverTrips ==
    Called =>
        /\ status = "running"
        /\ \A i, j \in 1..Len(call.resolved) :
              call.resolved[i].key = call.resolved[j].key =>
                  /\ call.resolved[i].position.text = call.resolved[j].position.text
                  /\ call.resolved[i].position.unit = call.resolved[j].position.unit

\* what holds of C28: the assertion trips only between a record keyed by
\* its message and a record keyed by a tag, or through the empty tag of C1
C28_SameSourceSameText ==
    Called =>
        \A i, j \in 1..Len(call.resolved) :
            (/\ call.resolved[i].key = call.resolved[j].key
             /\ call.resolved[i].position.text # call.resolved[j].position.text) =>
                \/ call.resolved[i].position.text = call.resolved[i].key
                \/ call.resolved[j].position.text = call.resolved[j].key
                \/ "" \in RecordTags(call.worklog.records[i])
                \/ "" \in RecordTags(call.worklog.records[j])

(***************************************************************************)
(* SpecValue: the value of an invoice.  The records have hours that are    *)
(* zero or more and a rate of their own or none.                           *)
(***************************************************************************)
ValueRecords ==
    {WorklogRecord(<<"acme", "dev">>, 1, h, r, "Coding") :
        h \in {0, 2}, r \in {None, Some(50)}}
    \cup {WorklogRecord(<<"acme">>, 1, 2, None, "Coding")}

InitValue ==
    /\ WorklogIdle
    /\ MergeIdle
    /\ TexIdle
    /\ ApplyIdle
    /\ RunIdle
    /\ recipient \in {[name |-> "acme", default_rate |-> d, tags |-> t] :
                         d \in {None, Some(80)}, t \in RateTagMaps}
    /\ config = NoConfig
    /\ invoice = InvoiceNew
    /\ call = NoCall
    /\ status = "running"

NextValue == AddWorklogTo(ValueRecords) \/ GenerateFor(ValueRecords)

SpecValue == InitValue /\ [][NextValue]_vars

\* C29: merging conserves value: with records whose hours are zero or
\* more, an add_worklog call raises Invoice::sum() by the sum over its
\* records of hours times the record's rate (its own, else the rate of the
\* worklog), whatever their grouping, and the net of every position is a
\* defined number.
C29_MergingConservesValue ==
    Returned =>
        /\ \A i \in 1..Len(invoice.positions) : IsFinite(Net(invoice.positions[i]))
        /\ InvoiceSum(invoice) =
             FAdd(InvoiceSum(call.before),
                  ValueAt(F32(0), call.worklog.records, call.worklog.rate))

\* what holds of C29: the value is conserved as long as no position holds
\* the quotient of a division by zero
C29_ConservedWhileDefined ==
    (Returned /\ \A i \in 1..Len(invoice.positions) :
                    IsFinite(invoice.positions[i].price_per_item)) =>
        C29_MergingConservesValue

(***************************************************************************)
(* SpecFingerprints: InvoiceFingerprints (invoicer.rs 162-181), a BiMap    *)
(* from fingerprints (left) to invoice numbers (right).  add inserts the   *)
(* fingerprint and the number of an invoice; the queries are made after    *)
(* it.                                                                     *)
(***************************************************************************)
\* the largest number of invoices added
MaxAdds == 2

\* the strings that are fingerprints; one of them is also a number
FingerprintValues == {"f1", "f2", "n1"}

NumberValues == {"n1", "n2"}

ContainsLeft(m, left) == \E i \in 1..Len(m) : m[i].left = left

ContainsRight(m, right) == \E i \in 1..Len(m) : m[i].right = right

\* BiMap::get_by_left: the right value paired with the left one
GetByLeft(m, left) ==
    IF ContainsLeft(m, left)
    THEN Some(m[CHOOSE i \in 1..Len(m) : m[i].left = left].right)
    ELSE None

\* BiMap::get_by_right: the left value paired with the right one
GetByRight(m, right) ==
    IF ContainsRight(m, right)
    THEN Some(m[CHOOSE i \in 1..Len(m) : m[i].right = right].left)
    ELSE None

\* invoicer.rs 169-171
ContainsFingerprint(m, f) == ContainsLeft(m, f)

\* invoicer.rs 173-175
ContainsNumber(m, n) == ContainsRight(m, n)

\* invoicer.rs 177-179: get_by_right(&f).unwrap(); None where unwrap panics
NumberForFingerprint(m, f) == GetByRight(m, f)

InitFingerprints ==
    /\ WorklogIdle
    /\ InvoiceIdle
    /\ MergeIdle
    /\ TexIdle
    /\ ApplyIdle
    /\ status = "running"
    /\ run = [NoRun EXCEPT !.result = "running"]

\* invoicer.rs 165-167: add, of an invoice with the given fingerprint and
\* number; run.done keeps what was added
FingerprintsAddInvoice(f, n) ==
    /\ status = "running"
    /\ ret = None
    /\ Len(run.done) < MaxAdds
    /\ run' = [run EXCEPT !.fingerprints = BiMapInsert(@, f, n),
                          !.done = Append(@, [fingerprint |-> f, number |-> n])]
    /\ UNCHANGED <<worklog, filtered, recipient, config, invoice, status, call,
                   lhs, rhs, merged, tex, arg, ret>>

\* the three queries, for a fingerprint and a number
QueryFingerprints(f, n) ==
    /\ status = "running"
    /\ ret = None
    /\ run.done # <<>>
    /\ arg' = Some([fingerprint |-> f, number |-> n])
    /\ ret' = Some([contains_fingerprint |-> ContainsFingerprint(run.fingerprints, f),
                    contains_number |-> ContainsNumber(run.fingerprints, n),
                    number_for_fingerprint |->
                        NumberForFingerprint(run.fingerprints, f)])
    /\ status' = IF NumberForFingerprint(run.fingerprints, f) = None
                 THEN "panicked" ELSE "running"
    /\ UNCHANGED <<worklog, filtered, recipient, config, invoice, call,
                   lhs, rhs, merged, tex, run>>

NextFingerprints ==
    \/ \E f \in FingerprintValues, n \in NumberValues : FingerprintsAddInvoice(f, n)
    \/ \E f \in FingerprintValues, n \in NumberValues : QueryFingerprints(f, n)

SpecFingerprints == InitFingerprints /\ [][NextFingerprints]_vars

\* an add recorded f with n and no later add has used f or n
Recorded(f, n) ==
    \E i \in 1..Len(run.done) :
        /\ run.done[i] = [fingerprint |-> f, number |-> n]
        /\ \A j \in (i + 1)..Len(run.done) :
              run.done[j].fingerprint # f /\ run.done[j].number # n

\* C30: after add has recorded an invoice with fingerprint f and number n,
\* and no later add has reused f or n, number_for_fingerprint(f) returns n,
\* contains_fingerprint(f) is true and contains_number(n) is true.
C30_FingerprintLookups ==
    (ret # None /\ Recorded(arg[1].fingerprint, arg[1].number)) =>
        /\ ret[1].contains_fingerprint
        /\ ret[1].contains_number
        /\ status = "running"
        /\ ret[1].number_for_fingerprint = Some(arg[1].number)

\* what holds of C30: the two membership queries; the number recorded for
\* f is what get_by_left finds, while the lookup returns what get_by_right
\* finds for f among the numbers
C30_MembershipLookups ==
    (ret # None /\ Recorded(arg[1].fingerprint, arg[1].number)) =>
        /\ ret[1].contains_fingerprint
        /\ ret[1].contains_number
        /\ GetByLeft(run.fingerprints, arg[1].fingerprint) = Some(arg[1].number)
        /\ ret[1].number_for_fingerprint =
             GetByRight(run.fingerprints, arg[1].fingerprint)

====
